---- MODULE Spec2Model ----
(***************************************************************************)
(* Model of the salary_compare rule-evaluation engine:                     *)
(*   salary_compare/universal_calculator.py  (UniversalTaxCalculator)      *)
(*   salary_compare/strategies/deductions.py (deduction strategies)        *)
(*   salary_compare/strategies/tax_base.py   (tax-base strategies)         *)
(*   salary_compare/models/tax_result.py     (TaxResult accumulator)       *)
(*   salary_compare/configs/*.py             (regime configurations)       *)
(*   salary_compare/registry.py              (TaxRegimeRegistry)           *)
(*   salary_compare/calculators/czechia.py   (per-country calculators)     *)
(*                                                                         *)
(* Money is decimal.Decimal in the program.  Here a Decimal is an exact    *)
(* fixed-point number held as NumLimbs base-10^4 limbs, least significant  *)
(* first: limbs 1..FracLimbs are the fraction (32 decimal digits), the     *)
(* remaining limbs the integer part.  Limbs below the top one lie in       *)
(* 0..9999; the top limb is a signed integer, so the representation of a   *)
(* value is unique and equality of values is equality of tuples.  Every    *)
(* arithmetic result is rounded as the default decimal context rounds it:  *)
(* to 28 significant digits, half to even.                                 *)
(***************************************************************************)
EXTENDS Integers, Sequences, FiniteSets, TLC

LimbBase == 10000
FracLimbs == 8
NumLimbs == 10

\* decimal.getcontext().prec: the significant digits an arithmetic result keeps.
Precision == 28

\* Absent value (Python None / missing dict key) and Decimal("inf").
None == <<>>
Inf == <<1, 1>>

Zero == <<0, 0, 0, 0, 0, 0, 0, 0, 0, 0>>

\* Decimal(str(e)) for a whole number e.
Dec(e) == <<0, 0, 0, 0, 0, 0, 0, 0, e % LimbBase, e \div LimbBase>>

\* The whole number a Decimal without fraction stands for.
WholePart(a) == a[FracLimbs + 1] + LimbBase * a[NumLimbs]

RECURSIVE Normalise(_, _, _)
Normalise(raw, i, carry) ==
    IF i = Len(raw)
    THEN <<raw[i] + carry>>
    ELSE LET t == raw[i] + carry
         IN  <<t % LimbBase>> \o Normalise(raw, i + 1, t \div LimbBase)

Negate(x) == Normalise([i \in 1..Len(x) |-> -x[i]], 1, 0)

\* |x|, and m with the sign of x.
Magnitude(x) == IF x[Len(x)] < 0 THEN Negate(x) ELSE x

WithSignOf(x, m) == IF x[Len(x)] < 0 THEN Negate(m) ELSE m

Pow10(r) == CASE r = 0 -> 1 [] r = 1 -> 10 [] r = 2 -> 100 [] r = 3 -> 1000

RECURSIVE DigitsIn(_)
DigitsIn(n) == IF n < 10 THEN 1 ELSE 1 + DigitsIn(n \div 10)

\* Index of the highest limb that is not zero, 0 if there is none.
RECURSIVE TopLimb(_, _)
TopLimb(x, i) == IF i = 0 \/ x[i] /= 0 THEN i ELSE TopLimb(x, i - 1)

\* The decimal digits of x >= 0 from its leading digit, in limb t, down to
\* the lowest digit of limb 1.
DigitsFrom(x, t) == IF t = 0 THEN 0 ELSE DigitsIn(x[t]) + 4 * (t - 1)

\* ROUND_HALF_EVEN: the dropped digits, of which lead are the leading ones
\* and the limbs 1..below the rest, exceed half a unit of the digit kept, or
\* are exactly half and the digit kept is odd.
RoundsUp(x, inexact, lead, half, below, kept) ==
    \/ lead > half
    \/ /\ lead = half
       /\ (inexact \/ kept % 2 = 1 \/ \E i \in 1..below : x[i] /= 0)

\* x with the digits below the unit u of limb b cleared and up units added.
RoundedTo(x, b, u, up) ==
    Normalise([i \in 1..Len(x) |->
                   IF i < b THEN 0
                   ELSE IF i = b THEN (x[b] \div u + up) * u
                   ELSE x[i]], 1, 0)

RoundAt(x, inexact, b, u) ==
    RoundedTo(x, b, u,
              IF u = 1
              THEN IF RoundsUp(x, inexact, x[b - 1], LimbBase \div 2, b - 2, x[b])
                   THEN 1 ELSE 0
              ELSE IF RoundsUp(x, inexact, x[b] % u, u \div 2, b - 1, x[b] \div u)
                   THEN 1 ELSE 0)

\* x >= 0 without its drop lowest digits, rounded.
RoundDropping(x, inexact, drop) ==
    IF drop <= 0 THEN x ELSE RoundAt(x, inexact, drop \div 4 + 1, Pow10(drop % 4))

\* ROUND_HALF_EVEN to Precision significant digits of x >= 0; inexact says
\* that the exact value has non-zero digits below the lowest limb of x.
RoundMagnitude(x, inexact) ==
    RoundDropping(x, inexact, DigitsFrom(x, TopLimb(x, Len(x))) - Precision)

\* An exact result with at most Precision digits: the limbs below the top
\* Precision \div 4 - 2 ones are zero and the top limb has at most 8 digits.
FitsPrecision(x, inexact) ==
    /\ ~inexact
    /\ \A i \in 1..(Len(x) - Precision \div 4 + 1) : x[i] = 0
    /\ x[Len(x)] > -100000000
    /\ x[Len(x)] < 100000000

\* The context's rounding of an exact result x.
Round(x, inexact) ==
    IF FitsPrecision(x, inexact)
    THEN x
    ELSE WithSignOf(x, RoundMagnitude(Magnitude(x), inexact))

\* a + b
DAdd(a, b) == Round(Normalise([i \in 1..NumLimbs |-> a[i] + b[i]], 1, 0), FALSE)

\* a - b
DSub(a, b) == Round(Normalise([i \in 1..NumLimbs |-> a[i] - b[i]], 1, 0), FALSE)

\* a < b, a <= b, a > 0
DLess(a, b) == Normalise([i \in 1..NumLimbs |-> a[i] - b[i]], 1, 0)[NumLimbs] < 0
DLeq(a, b) == ~DLess(b, a)
DPos(a) == DLess(Zero, a)

\* min(a, b), max(a, b) as Python computes them (first argument on ties).
DMin(a, b) == IF DLess(b, a) THEN b ELSE a
DMax(a, b) == IF DLess(a, b) THEN b ELSE a

\* p / 10^4 held with one more fraction limb.
ShiftDown(p) ==
    SubSeq(p, 1, NumLimbs - 1) \o <<p[NumLimbs] % LimbBase, p[NumLimbs] \div LimbBase>>

\* a * Decimal(r / 10^4) for a rate given by its numerator r in 0..10^4.
\* The product is formed exactly with one more fraction limb, rounded, and
\* the extra limb, zero after the rounding, is dropped.
DMulRate(a, r) ==
    Tail(Round(ShiftDown(Normalise([i \in 1..NumLimbs |-> a[i] * r], 1, 0)), FALSE))

\* a * b for a Decimal b without fraction.
DMulWhole(a, b) ==
    Round(Normalise([i \in 1..NumLimbs |-> a[i] * WholePart(b)], 1, 0), FALSE)

\* Long division of the limbs i, i-1, .., 1 of x by the whole number d.
RECURSIVE LongDivide(_, _, _, _, _)
LongDivide(x, d, i, remainder, quotient) ==
    IF i = 0
    THEN [quotient |-> quotient, remainder |-> remainder]
    ELSE LongDivide(x, d, i - 1, (remainder * LimbBase + x[i]) % d,
                    <<(remainder * LimbBase + x[i]) \div d>> \o quotient)

RoundQuotient(q) == Tail(Round(q.quotient, q.remainder /= 0))

\* a / b for a >= 0 and a Decimal b > 0 without fraction: the quotient is
\* formed with one more fraction limb, rounded, and the extra limb dropped.
DDivWhole(a, b) ==
    RoundQuotient(LongDivide(<<0>> \o a, WholePart(b), NumLimbs + 1, 0, <<>>))

\* sum(...) of a sequence of Decimals, added from the left.
RECURSIVE DSumFrom(_, _)
DSumFrom(acc, s) == IF s = <<>> THEN acc ELSE DSumFrom(DAdd(acc, Head(s)), Tail(s))

DSum(s) == DSumFrom(Zero, s)

\* Decimal("w.cc") given as the whole number of hundredths.
DecHundredths(c) == DMulRate(Dec(c), 100)


(***************************************************************************)
(* Currency converter as fixed by the test fixture (tests/conftest.py):    *)
(* 1 CZK = 0.04 EUR, 1 ILS = 0.25 EUR, every other pair 1.0.               *)
(***************************************************************************)
ConverterRate(from_currency) ==
    CASE from_currency = "CZK" -> 400
      [] from_currency = "ILS" -> 2500
      [] OTHER -> 10000

Convert(from_currency, amount) == DMulRate(amount, ConverterRate(from_currency))

(***************************************************************************)
(* Configuration records (models/config.py).  Rates are numerators over    *)
(* 10^4.  A strategy record carries its DeductionConfig fields and the     *)
(* constructor arguments of its class.                                     *)
(***************************************************************************)
TaxBracketConfig(lower_bound, upper_bound, rate) ==
    [lower_bound |-> lower_bound, upper_bound |-> upper_bound, rate |-> rate]

DeductionConfig(kind, name, rate, applies_to, ceiling, floor) ==
    [kind |-> kind, name |-> name, rate |-> rate, applies_to |-> applies_to,
     ceiling |-> ceiling, floor |-> floor,
     brackets |-> <<>>, discount |-> Zero, base_multiplier |-> 10000,
     condition |-> "none"]

FlatRateDeduction(name, rate, applies_to, ceiling) ==
    DeductionConfig("FlatRate", name, rate, applies_to, ceiling, None)

\* ProgressiveTaxDeduction.__init__: self.discount = discount or Decimal("0")
ProgressiveTaxDeduction(name, applies_to, brackets, discount) ==
    [DeductionConfig("Progressive", name, 0, applies_to, None, None)
        EXCEPT !.brackets = brackets,
               !.discount = IF discount = None THEN Zero ELSE discount]

\* CappedPercentageDeduction.__init__ raises ValueError unless config.ceiling
\* is truthy, so every instance has a ceiling that is not None and not 0.
CappedPercentageDeduction(name, rate, applies_to, ceiling, floor) ==
    DeductionConfig("CappedPercentage", name, rate, applies_to, ceiling, floor)

PercentageOfTaxBaseDeduction(name, rate, applies_to, base_multiplier) ==
    [DeductionConfig("PercentageOfBase", name, rate, applies_to, None, None)
        EXCEPT !.base_multiplier = base_multiplier]

ConditionalDeduction(name, rate, applies_to, condition) ==
    [DeductionConfig("Conditional", name, rate, applies_to, None, None)
        EXCEPT !.condition = condition]

StandardTaxBase == [kind |-> "Standard", taxable_rate |-> 0, expense_cap |-> None]
AfterSocialSecurityTaxBase ==
    [kind |-> "AfterSocialSecurity", taxable_rate |-> 0, expense_cap |-> None]
FlatRateExpenseTaxBaseConfig(taxable_rate, expense_cap) ==
    [kind |-> "FlatRateExpense", taxable_rate |-> taxable_rate,
     expense_cap |-> expense_cap]

SpanishEmploymentIncomeTaxBase ==
    [kind |-> "SpanishEmploymentIncome", taxable_rate |-> 0, expense_cap |-> None]

TaxRegimeConfig(tax_base_strategy, deduction_strategies) ==
    [tax_base_strategy |-> tax_base_strategy,
     deduction_strategies |-> deduction_strategies]

(***************************************************************************)
(* Regime configurations (configs/*.py).                                   *)
(***************************************************************************)
GERMANY_SALARIED ==
    TaxRegimeConfig(AfterSocialSecurityTaxBase, <<
        FlatRateDeduction("Pension Insurance", 930, "gross", Dec(96000)),
        FlatRateDeduction("Health Insurance", 910, "gross", Dec(62100)),
        FlatRateDeduction("Unemployment Insurance", 130, "gross", Dec(96000)),
        FlatRateDeduction("Long_Term_Care Insurance", 200, "gross", Dec(62100)),
        ProgressiveTaxDeduction("Income Tax", "taxable", <<
            TaxBracketConfig(Dec(0), Dec(12096), 0),
            TaxBracketConfig(Dec(12096), Dec(22096), 2400),
            TaxBracketConfig(Dec(22096), Dec(32096), 3200),
            TaxBracketConfig(Dec(32096), Dec(42096), 3700),
            TaxBracketConfig(Dec(42096), Dec(52096), 4000),
            TaxBracketConfig(Dec(52096), Dec(62096), 4100),
            TaxBracketConfig(Dec(62096), Dec(68480), 4200),
            TaxBracketConfig(Dec(68480), Dec(277825), 4200),
            TaxBracketConfig(Dec(277825), Inf, 4500) >>, None),
        ConditionalDeduction("Solidarity Surcharge", 550, "income_tax",
                             "income_tax_above_1000") >>)

CzechiaBrackets ==
    << TaxBracketConfig(Dec(0), Convert("CZK", Dec(1867728)), 1500),
       TaxBracketConfig(Convert("CZK", Dec(1867728)), Inf, 2300) >>

CZECHIA_SALARIED ==
    TaxRegimeConfig(StandardTaxBase, <<
        FlatRateDeduction("Social Security", 650, "gross", None),
        FlatRateDeduction("Health Insurance", 450, "gross", None),
        ProgressiveTaxDeduction("Income Tax", "gross", CzechiaBrackets, None) >>)

CZECHIA_FREELANCER ==
    TaxRegimeConfig(
        FlatRateExpenseTaxBaseConfig(4000, Convert("CZK", Dec(2000000))), <<
        ProgressiveTaxDeduction("Income Tax", "taxable", CzechiaBrackets,
                                Convert("CZK", Dec(30840))),
        PercentageOfTaxBaseDeduction("Social Security", 2920, "taxable", 5000),
        PercentageOfTaxBaseDeduction("Health Insurance", 1350, "taxable", 5000) >>)

ISRAEL_SALARIED ==
    TaxRegimeConfig(StandardTaxBase, <<
        FlatRateDeduction("National Insurance", 400, "gross", None),
        FlatRateDeduction("Health Tax", 500, "gross", None),
        FlatRateDeduction("Pension", 600, "gross", None),
        CappedPercentageDeduction("Keren Hishtalmut", 250, "gross",
                                  Convert("ILS", Dec(188544)), None),
        ProgressiveTaxDeduction("Income Tax", "gross", <<
            TaxBracketConfig(Convert("ILS", Dec(0)), Convert("ILS", Dec(83040)), 1000),
            TaxBracketConfig(Convert("ILS", Dec(83040)), Convert("ILS", Dec(119040)), 1400),
            TaxBracketConfig(Convert("ILS", Dec(119040)), Convert("ILS", Dec(185040)), 2000),
            TaxBracketConfig(Convert("ILS", Dec(185040)), Convert("ILS", Dec(260040)), 3100),
            TaxBracketConfig(Convert("ILS", Dec(260040)), Convert("ILS", Dec(560280)), 3500),
            TaxBracketConfig(Convert("ILS", Dec(560280)), Convert("ILS", Dec(721560)), 4700),
            TaxBracketConfig(Convert("ILS", Dec(721560)), Inf, 5000) >>, None) >>)

ROMANIA_FREELANCER_MICRO ==
    TaxRegimeConfig(StandardTaxBase, <<
        FlatRateDeduction("Microenterprise Tax", 100, "gross", None),
        FlatRateDeduction("Dividend Tax (8%)", 800, "gross", None),
        FlatRateDeduction("Health Insurance", 70, "gross", None),
        FlatRateDeduction("Social Security (Optional)", 400, "gross", None) >>)

BULGARIA_FREELANCER ==
    TaxRegimeConfig(StandardTaxBase, <<
        FlatRateDeduction("Social Security", 1980, "gross", Convert("BGN", Dec(72000))),
        FlatRateDeduction("Health Insurance", 800, "gross", Convert("BGN", Dec(72000))),
        ProgressiveTaxDeduction("Income Tax", "gross",
            << TaxBracketConfig(Dec(0), Inf, 1000) >>, None) >>)

PortugalBrackets ==
    << TaxBracketConfig(Dec(0), Dec(7703), 1325),
       TaxBracketConfig(Dec(7703), Dec(11623), 1800),
       TaxBracketConfig(Dec(11623), Dec(16472), 2300),
       TaxBracketConfig(Dec(16472), Dec(21321), 2600),
       TaxBracketConfig(Dec(21321), Dec(27146), 3275),
       TaxBracketConfig(Dec(27146), Dec(39791), 3700),
       TaxBracketConfig(Dec(39791), Dec(51997), 4350),
       TaxBracketConfig(Dec(51997), Dec(81199), 4500),
       TaxBracketConfig(Dec(81199), Inf, 4800) >>

PORTUGAL_SALARIED ==
    TaxRegimeConfig(StandardTaxBase, <<
        FlatRateDeduction("Social Security (TSU)", 1100, "gross", None),
        ProgressiveTaxDeduction("Income Tax (IRS)", "gross", PortugalBrackets, None) >>)

PORTUGAL_FREELANCER ==
    TaxRegimeConfig(FlatRateExpenseTaxBaseConfig(2500, Dec(999999999)), <<
        PercentageOfTaxBaseDeduction("Social Security", 2140, "gross", 7000),
        ProgressiveTaxDeduction("Income Tax (IRS)", "taxable", PortugalBrackets, None) >>)

FRANCE_SALARIED ==
    TaxRegimeConfig(AfterSocialSecurityTaxBase, <<
        CappedPercentageDeduction("Old-Age Insurance (Base)", 690, "gross",
                                  Dec(47100), None),
        FlatRateDeduction("Old-Age Insurance (Supplementary)", 40, "gross", None),
        FlatRateDeduction("CSG (General Social Contribution)", 904, "gross", None),
        FlatRateDeduction("CRDS (Social Debt Repayment)", 49, "gross", None),
        CappedPercentageDeduction("Supplementary Pension (Bracket 1)", 315, "gross",
                                  Dec(47100), None),
        CappedPercentageDeduction("Supplementary Pension (Bracket 2)", 864, "gross",
                                  Dec(376800), Dec(47100)),
        CappedPercentageDeduction("CEG (Balance Contribution - B1)", 86, "gross",
                                  Dec(47100), None),
        CappedPercentageDeduction("CEG (Balance Contribution - B2)", 108, "gross",
                                  Dec(376800), Dec(47100)),
        ProgressiveTaxDeduction("Income Tax", "gross", <<
            TaxBracketConfig(Dec(0), Dec(10225), 0),
            TaxBracketConfig(Dec(10225), Dec(26070), 1100),
            TaxBracketConfig(Dec(26070), Dec(74545), 3000),
            TaxBracketConfig(Dec(74545), Dec(160336), 4100),
            TaxBracketConfig(Dec(160336), Inf, 4500) >>, None) >>)

SpainSocialSecurity ==
    FlatRateDeduction("Social Security", 648, "gross", Dec(58914))

MADRID_SALARIED ==
    TaxRegimeConfig(SpanishEmploymentIncomeTaxBase, <<
        SpainSocialSecurity,
        ProgressiveTaxDeduction("Income Tax", "gross", <<
            TaxBracketConfig(Dec(0), Dec(12450), 1900),
            TaxBracketConfig(Dec(12450), Dec(20200), 2400),
            TaxBracketConfig(Dec(20200), Dec(35200), 3000),
            TaxBracketConfig(Dec(35200), Dec(60000), 3700),
            TaxBracketConfig(Dec(60000), Dec(300000), 4500),
            TaxBracketConfig(Dec(300000), Inf, 4700) >>, None) >>)

BARCELONA_SALARIED ==
    TaxRegimeConfig(SpanishEmploymentIncomeTaxBase, <<
        SpainSocialSecurity,
        ProgressiveTaxDeduction("Income Tax", "gross", <<
            TaxBracketConfig(Dec(0), Dec(12450), 1900),
            TaxBracketConfig(Dec(12450), Dec(20200), 2400),
            TaxBracketConfig(Dec(20200), Dec(35200), 3150),
            TaxBracketConfig(Dec(35200), Dec(60000), 3850),
            TaxBracketConfig(Dec(60000), Dec(300000), 4600),
            TaxBracketConfig(Dec(300000), Inf, 4800) >>, None) >>)

VALENCIA_SALARIED ==
    TaxRegimeConfig(SpanishEmploymentIncomeTaxBase, <<
        SpainSocialSecurity,
        ProgressiveTaxDeduction("Income Tax", "gross", <<
            TaxBracketConfig(Dec(0), Dec(12450), 1900),
            TaxBracketConfig(Dec(12450), Dec(20200), 2400),
            TaxBracketConfig(Dec(20200), Dec(35200), 3050),
            TaxBracketConfig(Dec(35200), Dec(60000), 3750),
            TaxBracketConfig(Dec(60000), Dec(300000), 4550),
            TaxBracketConfig(Dec(300000), Inf, 4750) >>, None) >>)

(***************************************************************************)
(* The calculation context: a Python dict, here a function whose domain is *)
(* the set of keys present.                                                *)
(***************************************************************************)
EmptyContext == <<>>

ContextGet(context, key, default) ==
    IF key \in DOMAIN context THEN context[key] ELSE default

ContextSet(context, key, value) ==
    [k \in (DOMAIN context) \cup {key} |-> IF k = key THEN value ELSE context[k]]

(***************************************************************************)
(* Result records (models/tax_result.py).  A rate is kept as the pair      *)
(* <<numerator, denominator>> of Decimals: a configured rate r is          *)
(* <<r, 1>>, the effective rate of a progressive deduction is              *)
(* <<total_tax, base_amount>> (the quotient is only displayed).            *)
(***************************************************************************)
ConfigRate(r) == <<DMulRate(Dec(1), r), Dec(1)>>

TaxBracket(lower_bound, upper_bound, rate, taxable_amount, tax_amount) ==
    [lower_bound |-> lower_bound, upper_bound |-> upper_bound, rate |-> rate,
     taxable_amount |-> taxable_amount, tax_amount |-> tax_amount]

Deduction(name, amount, rate) == [name |-> name, amount |-> amount, rate |-> rate]

(***************************************************************************)
(* Tax-base strategies (strategies/tax_base.py).  Each returns the tax     *)
(* base and the context after its writes.                                  *)
(***************************************************************************)
StandardTaxBaseCalculate(gross_salary, context) ==
    [tax_base |-> gross_salary, context |-> context]

\* A variant that adds the social-security total instead of subtracting it.
AfterSocialSecurityTaxBaseCalculateAdds(gross_salary, context) ==
    [tax_base |-> DAdd(gross_salary, ContextGet(context, "social_security_total", Zero)),
     context |-> context]

AfterSocialSecurityTaxBaseCalculate(gross_salary, context) ==
    [tax_base |-> DSub(gross_salary, ContextGet(context, "social_security_total", Zero)),
     context |-> context]

\* A variant that taxes the whole gross, not the excess, above the cap.
FlatRateExpenseTaxableIncomeWholeGrossAboveCap(gross_salary, taxable_rate, expense_cap) ==
    IF DLeq(gross_salary, expense_cap)
    THEN DMulRate(gross_salary, taxable_rate)
    ELSE DAdd(DMulRate(expense_cap, taxable_rate), gross_salary)

FlatRateExpenseTaxableIncome(gross_salary, taxable_rate, expense_cap) ==
    IF DLeq(gross_salary, expense_cap)
    THEN DMulRate(gross_salary, taxable_rate)
    ELSE DAdd(DMulRate(expense_cap, taxable_rate), DSub(gross_salary, expense_cap))

\* A variant that takes the deductible expenses from the whole gross salary.
FlatRateExpenseTaxBaseCalculateExpensesOnWholeGross(strategy, gross_salary, context) ==
    [tax_base |-> FlatRateExpenseTaxableIncome(gross_salary, strategy.taxable_rate,
                                               strategy.expense_cap),
     context |-> ContextSet(ContextSet(context, "deductible_expenses",
                                       DMulRate(gross_salary,
                                                10000 - strategy.taxable_rate)),
                            "expense_cap_applied",
                            DLess(strategy.expense_cap, gross_salary))]

FlatRateExpenseTaxBaseCalculate(strategy, gross_salary, context) ==
    LET cap == strategy.expense_cap
        taxable_income ==
            FlatRateExpenseTaxableIncome(gross_salary, strategy.taxable_rate, cap)
        deductible_expenses ==
            IF DLeq(gross_salary, cap)
            THEN DMulRate(gross_salary, 10000 - strategy.taxable_rate)
            ELSE DMulRate(cap, 10000 - strategy.taxable_rate)
    IN  [tax_base |-> taxable_income,
         context |-> ContextSet(ContextSet(context, "deductible_expenses",
                                           deductible_expenses),
                                "expense_cap_applied", DLess(cap, gross_salary))]

\* SpanishEmploymentIncomeTaxBase._calculate_employment_reduction
CalculateEmploymentReduction(net_income) ==
    LET max_reduction == Dec(6498)
        min_reduction == Dec(2000)
        lower_threshold == DecHundredths(1404750)
        upper_threshold == DecHundredths(1974750)
    IN  IF DLeq(net_income, lower_threshold)
        THEN max_reduction
        ELSE IF DLeq(upper_threshold, net_income)
        THEN min_reduction
        ELSE LET phase_out_range == DSub(upper_threshold, lower_threshold)
                 reduction_range == DSub(max_reduction, min_reduction)
                 excess == DSub(net_income, lower_threshold)
                 reduction ==
                     DSub(max_reduction,
                          DDivWhole(DMulWhole(excess, reduction_range),
                                    phase_out_range))
             IN  DMax(reduction, min_reduction)

SpanishEmploymentIncomeTaxBaseCalculate(gross_salary, context) ==
    LET net_income == DSub(gross_salary,
                           ContextGet(context, "social_security_total", Zero))
        reduction == CalculateEmploymentReduction(net_income)
    IN  [tax_base |-> DSub(net_income, reduction),
         context |-> ContextSet(ContextSet(context, "employment_income_reduction",
                                           reduction),
                                "net_income_before_tax", net_income)]

TaxBaseCalculate(strategy, gross_salary, context) ==
    CASE strategy.kind = "Standard" ->
            StandardTaxBaseCalculate(gross_salary, context)
      [] strategy.kind = "AfterSocialSecurity" ->
            AfterSocialSecurityTaxBaseCalculate(gross_salary, context)
      [] strategy.kind = "FlatRateExpense" ->
            FlatRateExpenseTaxBaseCalculate(strategy, gross_salary, context)
      [] strategy.kind = "SpanishEmploymentIncome" ->
            SpanishEmploymentIncomeTaxBaseCalculate(gross_salary, context)

(***************************************************************************)
(* Deduction strategies (strategies/deductions.py).  calculate returns the *)
(* Deduction and the context after its writes.                             *)
(***************************************************************************)
IsTaxable(applies_to) == applies_to \in {"taxable", "tax_base"}

\* Python truthiness of an Optional[Decimal]: None and Decimal("0") are falsy.
Truthy(d) == d /= None /\ d /= Zero

FlatRateGetBaseAmount(s, gross_salary, tax_base, context) ==
    CASE s.applies_to = "gross" -> gross_salary
      [] IsTaxable(s.applies_to) -> tax_base
      [] s.applies_to = "income_tax" -> ContextGet(context, "income_tax_amount", Zero)
      [] OTHER -> gross_salary

FlatRateActualBase(base_amount, ceiling) ==
    IF Truthy(ceiling) THEN DMin(base_amount, ceiling) ELSE base_amount

FlatRateCalculate(s, base_amount, context) ==
    [deduction |-> Deduction(s.name,
                             DMulRate(FlatRateActualBase(base_amount, s.ceiling), s.rate),
                             ConfigRate(s.rate)),
     context |-> context]

ProgressiveGetBaseAmount(s, gross_salary, tax_base, context) ==
    IF s.applies_to = "gross" THEN gross_salary ELSE tax_base

\* A variant that takes the whole width of a bracket whatever income remains.
TaxableInBracketWholeWidth(remaining_income, lower_bound, upper_bound) ==
    DSub(upper_bound, lower_bound)

TaxableInBracket(remaining_income, lower_bound, upper_bound) ==
    DMin(remaining_income, DSub(upper_bound, lower_bound))

\* The loop over self.brackets; w carries remaining_income, total_tax and
\* bracket_objects.
RECURSIVE BracketWalk(_, _, _)
BracketWalk(brackets, base_amount, w) ==
    IF brackets = <<>> \/ ~DPos(w.remaining_income)
    THEN w
    ELSE LET bc == Head(brackets)
             upper_bound == IF bc.upper_bound = Inf THEN base_amount
                            ELSE bc.upper_bound
             taxable_in_bracket ==
                 TaxableInBracket(w.remaining_income, bc.lower_bound, upper_bound)
             tax_in_bracket == DMulRate(taxable_in_bracket, bc.rate)
         IN  IF DPos(taxable_in_bracket)
             THEN BracketWalk(Tail(brackets), base_amount,
                     [remaining_income |-> DSub(w.remaining_income, taxable_in_bracket),
                      total_tax |-> DAdd(w.total_tax, tax_in_bracket),
                      bracket_objects |->
                          Append(w.bracket_objects,
                                 TaxBracket(bc.lower_bound, upper_bound, bc.rate,
                                            taxable_in_bracket, tax_in_bracket))])
             ELSE BracketWalk(Tail(brackets), base_amount, w)

\* Variants that drop the discount, or subtract it without the floor at 0.
ApplyDiscountIgnored(total_tax, discount) == total_tax

ApplyDiscountUnclamped(total_tax, discount) == DSub(total_tax, discount)

\* total_tax = max(Decimal("0"), total_tax - self.discount)
ApplyDiscount(total_tax, discount) == DMax(Zero, DSub(total_tax, discount))

\* A variant that appends its brackets to the ones already staged.
ProgressiveCalculateAppends(s, base_amount, context) ==
    LET w == BracketWalk(s.brackets, base_amount,
                         [remaining_income |-> base_amount, total_tax |-> Zero,
                          bracket_objects |-> <<>>])
        total_tax == ApplyDiscount(w.total_tax, s.discount)
    IN  [deduction |-> Deduction(s.name, total_tax,
                                 IF DPos(base_amount) THEN <<total_tax, base_amount>>
                                 ELSE <<Zero, Dec(1)>>),
         context |-> ContextSet(ContextSet(context, "income_tax_brackets",
                                           ContextGet(context, "income_tax_brackets",
                                                      <<>>)
                                               \o w.bracket_objects),
                                "income_tax_amount", total_tax)]

ProgressiveCalculate(s, base_amount, context) ==
    LET w == BracketWalk(s.brackets, base_amount,
                         [remaining_income |-> base_amount, total_tax |-> Zero,
                          bracket_objects |-> <<>>])
        total_tax == ApplyDiscount(w.total_tax, s.discount)
    IN  [deduction |-> Deduction(s.name, total_tax,
                                 IF DPos(base_amount) THEN <<total_tax, base_amount>>
                                 ELSE <<Zero, Dec(1)>>),
         context |-> ContextSet(ContextSet(context, "income_tax_brackets",
                                           w.bracket_objects),
                                "income_tax_amount", total_tax)]

CappedPercentageGetBaseAmount(s, gross_salary, tax_base, context) ==
    CASE s.applies_to = "gross" -> gross_salary
      [] IsTaxable(s.applies_to) -> tax_base
      [] OTHER -> gross_salary

\* capped_base = min(base_amount, self.config.ceiling); config.floor is not read.
CappedPercentageCalculate(s, base_amount, context) ==
    [deduction |-> Deduction(s.name,
                             DMulRate(DMin(base_amount, s.ceiling), s.rate),
                             ConfigRate(s.rate)),
     context |-> context]

PercentageOfTaxBaseGetBaseAmount(s, gross_salary, tax_base, context) ==
    CASE s.applies_to = "gross" -> DMulRate(gross_salary, s.base_multiplier)
      [] IsTaxable(s.applies_to) -> DMulRate(tax_base, s.base_multiplier)
      [] OTHER -> DMulRate(gross_salary, s.base_multiplier)

PercentageOfTaxBaseCalculate(s, base_amount, context) ==
    [deduction |-> Deduction(s.name, DMulRate(base_amount, s.rate), ConfigRate(s.rate)),
     context |-> context]

ConditionalGetBaseAmount(s, gross_salary, tax_base, context) ==
    CASE s.applies_to = "income_tax" -> ContextGet(context, "income_tax_amount", Zero)
      [] s.applies_to = "gross" -> gross_salary
      [] IsTaxable(s.applies_to) -> tax_base
      [] OTHER -> gross_salary

\* A variant whose condition also holds at the threshold itself.
ConditionAtThresholdToo(s, context) ==
    CASE s.condition = "income_tax_above_1000" ->
            DLeq(Dec(1000), ContextGet(context, "income_tax_amount", Zero))
      [] OTHER -> FALSE

\* The predicate passed to ConditionalDeduction (configs/germany.py):
\* lambda ctx: ctx.get("income_tax_amount", Decimal("0")) > Decimal("1000")
Condition(s, context) ==
    CASE s.condition = "income_tax_above_1000" ->
            DLess(Dec(1000), ContextGet(context, "income_tax_amount", Zero))
      [] OTHER -> FALSE

ConditionalCalculate(s, base_amount, context) ==
    [deduction |->
        IF ~Condition(s, context)
        THEN Deduction(s.name, Zero, ConfigRate(0))
        ELSE Deduction(s.name, DMulRate(base_amount, s.rate), ConfigRate(s.rate)),
     context |-> context]

GetBaseAmount(s, gross_salary, tax_base, context) ==
    CASE s.kind = "FlatRate" -> FlatRateGetBaseAmount(s, gross_salary, tax_base, context)
      [] s.kind = "Progressive" ->
            ProgressiveGetBaseAmount(s, gross_salary, tax_base, context)
      [] s.kind = "CappedPercentage" ->
            CappedPercentageGetBaseAmount(s, gross_salary, tax_base, context)
      [] s.kind = "PercentageOfBase" ->
            PercentageOfTaxBaseGetBaseAmount(s, gross_salary, tax_base, context)
      [] s.kind = "Conditional" ->
            ConditionalGetBaseAmount(s, gross_salary, tax_base, context)

Calculate(s, base_amount, context) ==
    CASE s.kind = "FlatRate" -> FlatRateCalculate(s, base_amount, context)
      [] s.kind = "Progressive" -> ProgressiveCalculate(s, base_amount, context)
      [] s.kind = "CappedPercentage" -> CappedPercentageCalculate(s, base_amount, context)
      [] s.kind = "PercentageOfBase" -> PercentageOfTaxBaseCalculate(s, base_amount, context)
      [] s.kind = "Conditional" -> ConditionalCalculate(s, base_amount, context)

(***************************************************************************)
(* A regime a caller builds with TaxRegimeConfig from the same strategy    *)
(* classes, in an order no shipped configuration uses: the deductions that *)
(* read the income tax come before the income tax, the gross-based ones    *)
(* come last, one of them takes a share of gross, and a second progressive *)
(* tax follows the income tax.                                             *)
(***************************************************************************)
CUSTOM_REORDERED ==
    TaxRegimeConfig(AfterSocialSecurityTaxBase, <<
        ConditionalDeduction("Solidarity Surcharge", 550, "income_tax",
                             "income_tax_above_1000"),
        FlatRateDeduction("Church Tax", 800, "income_tax", None),
        ProgressiveTaxDeduction("Income Tax", "taxable", CzechiaBrackets, None),
        FlatRateDeduction("Pension Insurance", 930, "gross", Dec(96000)),
        PercentageOfTaxBaseDeduction("Health Insurance", 1000, "gross", 7000),
        ProgressiveTaxDeduction("Regional Tax", "taxable", PortugalBrackets, None) >>)

\* A regime a caller builds like the France configuration, whose income tax
\* applies to gross, with a surcharge on the income tax configured first.
CUSTOM_GROSS_TAXED ==
    TaxRegimeConfig(AfterSocialSecurityTaxBase, <<
        ConditionalDeduction("Solidarity Surcharge", 550, "income_tax",
                             "income_tax_above_1000"),
        FlatRateDeduction("Pension Insurance", 930, "gross", Dec(96000)),
        ProgressiveTaxDeduction("Income Tax", "gross", CzechiaBrackets, None) >>)

CustomRegimeKeys == {"custom-reordered", "custom-gross-taxed"}

(***************************************************************************)
(* The registry of regimes (registry.py) plus the France configuration,    *)
(* which configs/france.py builds although registry.py does not register   *)
(* it.                                                                     *)
(***************************************************************************)
RegimeKeys ==
    {"germany-salaried", "czechia-salaried", "czechia-freelancer",
     "israel-salaried", "spain-madrid", "spain-barcelona", "spain-valencia",
     "romania-freelancer-micro", "bulgaria-freelancer",
     "portugal-salaried", "portugal-freelancer", "france-salaried"}

RegimeOf(key) ==
    CASE key = "germany-salaried" -> GERMANY_SALARIED
      [] key = "czechia-salaried" -> CZECHIA_SALARIED
      [] key = "czechia-freelancer" -> CZECHIA_FREELANCER
      [] key = "israel-salaried" -> ISRAEL_SALARIED
      [] key = "spain-madrid" -> MADRID_SALARIED
      [] key = "spain-barcelona" -> BARCELONA_SALARIED
      [] key = "spain-valencia" -> VALENCIA_SALARIED
      [] key = "romania-freelancer-micro" -> ROMANIA_FREELANCER_MICRO
      [] key = "bulgaria-freelancer" -> BULGARIA_FREELANCER
      [] key = "portugal-salaried" -> PORTUGAL_SALARIED
      [] key = "portugal-freelancer" -> PORTUGAL_FREELANCER
      [] key = "france-salaried" -> FRANCE_SALARIED
      [] key = "custom-reordered" -> CUSTOM_REORDERED
      [] key = "custom-gross-taxed" -> CUSTOM_GROSS_TAXED

(***************************************************************************)
(* Gross salaries tried: a coarse grid over [0, 10,000,000] and the        *)
(* salaries around the thresholds of the configured regimes.               *)
(***************************************************************************)
GrossStep == 2500000
MaxGrossSteps == 4

ThresholdGross ==
    {10000, 14047, 14048, 17000, 19747, 19748, 20000, 20560, 20769, 20770,
     30000, 47100, 50000, 58914, 62100, 74700, 74800, 80000, 80100, 96000,
     100000, 122800, 200000, 400000}

GrossValues ==
    {Dec(g) : g \in ThresholdGross \cup {k * GrossStep : k \in 0..MaxGrossSteps}}

\* The salaries used when results of several calls are kept and compared.
KeepingGross ==
    {Dec(g) : g \in {20769, 20770, 80000, 80100}}

\* The calls counted after a result was kept.
MaxCallsSince == 2

(***************************************************************************)
(* TaxResult (models/tax_result.py).                                       *)
(***************************************************************************)
TaxResult(gross_salary) ==
    [gross_salary |-> gross_salary, tax_base |-> Zero, net_salary |-> Zero,
     total_deductions |-> Zero, income_tax_brackets |-> <<>>,
     deductions |-> <<>>, calculation_explanations |-> {}]

\* Variants of add_deduction that leave total_deductions, or net_salary, as
\* it was.
AddDeductionForgetsTotal(result, deduction) ==
    [result EXCEPT !.deductions = Append(@, deduction),
                   !.net_salary = DSub(result.gross_salary, result.total_deductions)]

AddDeductionForgetsNet(result, deduction) ==
    [result EXCEPT !.deductions = Append(@, deduction),
                   !.total_deductions = DAdd(@, deduction.amount)]

\* A variant that puts the new deduction in front of the list.
AddDeductionInFront(result, deduction) ==
    [result EXCEPT !.deductions = <<deduction>> \o @,
                   !.total_deductions = DAdd(@, deduction.amount),
                   !.net_salary = DSub(result.gross_salary,
                                       DAdd(result.total_deductions, deduction.amount))]

AddDeduction(result, deduction) ==
    [result EXCEPT !.deductions = Append(@, deduction),
                   !.total_deductions = DAdd(@, deduction.amount),
                   !.net_salary = DSub(result.gross_salary,
                                       DAdd(result.total_deductions, deduction.amount))]

\* sum(bracket.tax_amount for bracket in self.income_tax_brackets)
TotalIncomeTax(result) ==
    DSum([i \in 1..Len(result.income_tax_brackets) |->
              result.income_tax_brackets[i].tax_amount])

(***************************************************************************)
(* The per-country calculators the engine replaces (models/employee.py,    *)
(* calculators/czechia.py).  Each calculate_net_salary is one sequential   *)
(* function from the gross salary to its TaxResult.                        *)
(***************************************************************************)
\* Employee._create_base_result
CreateBaseResult(gross_salary) ==
    [TaxResult(gross_salary) EXCEPT !.tax_base = gross_salary,
                                    !.net_salary = gross_salary]

\* total_tax / taxable_income if taxable_income > 0 else Decimal("0")
EffectiveRate(amount, base_amount) ==
    IF DPos(base_amount) THEN <<amount, base_amount>> ELSE <<Zero, Dec(1)>>

\* self.income_tax_threshold, self.expense_cap_eur, self.taxpayer_discount
LegacyIncomeTaxThreshold == Convert("CZK", Dec(1867728))

LegacyExpenseCap == Convert("CZK", Dec(2000000))

LegacyTaxpayerDiscount == Convert("CZK", Dec(30840))

LegacyExplanations ==
    {"tax_base", "income_tax", "social_security", "health_insurance"}

\* The brackets SalariedEmployeeCzechia._calculate_two_tier_tax appends.
TwoTierBrackets(taxable_income) ==
    (IF DPos(taxable_income)
     THEN LET amount_in_low_bracket == DMin(taxable_income, LegacyIncomeTaxThreshold)
          IN  <<TaxBracket(Zero, LegacyIncomeTaxThreshold, 1500,
                           amount_in_low_bracket,
                           DMulRate(amount_in_low_bracket, 1500))>>
     ELSE <<>>)
    \o
    (IF DLess(LegacyIncomeTaxThreshold, taxable_income)
     THEN LET amount_in_high_bracket == DSub(taxable_income, LegacyIncomeTaxThreshold)
          IN  <<TaxBracket(LegacyIncomeTaxThreshold, Dec(999999999), 2300,
                           amount_in_high_bracket,
                           DMulRate(amount_in_high_bracket, 2300))>>
     ELSE <<>>)

SalariedEmployeeCzechiaCalculate(gross_salary) ==
    LET social_security == DMulRate(gross_salary, 650)
        health_insurance == DMulRate(gross_salary, 450)
        r1 == AddDeduction(CreateBaseResult(gross_salary),
                           Deduction("Social Security", social_security,
                                     ConfigRate(650)))
        r2 == AddDeduction(r1, Deduction("Health Insurance", health_insurance,
                                         ConfigRate(450)))
        taxable_income == gross_salary
        brackets == TwoTierBrackets(taxable_income)
        total_tax == DSum([j \in 1..Len(brackets) |-> brackets[j].tax_amount])
        r3 == AddDeduction([r2 EXCEPT !.tax_base = taxable_income,
                                      !.income_tax_brackets = brackets],
                           Deduction("Income Tax", total_tax,
                                     EffectiveRate(total_tax, taxable_income)))
    IN  [r3 EXCEPT !.net_salary = DSub(gross_salary, r3.total_deductions),
                   !.calculation_explanations = LegacyExplanations]

\* A variant that applies the 60/40 rule to the whole gross salary.
FreelancerCzechiaTaxableIncomeUncapped(gross_salary) ==
    DMulRate(gross_salary, 4000)

\* FreelancerCzechia._calculate_taxable_income
FreelancerCzechiaTaxableIncome(gross_salary) ==
    IF DLeq(gross_salary, LegacyExpenseCap)
    THEN DMulRate(gross_salary, 4000)
    ELSE DAdd(DMulRate(LegacyExpenseCap, 4000), DSub(gross_salary, LegacyExpenseCap))

\* The brackets FreelancerCzechia.calculate_net_salary appends.
FreelancerCzechiaBrackets(taxable_income) ==
    IF DPos(taxable_income)
    THEN LET amount_in_low_bracket == DMin(taxable_income, LegacyIncomeTaxThreshold)
             amount_in_high_bracket == DSub(taxable_income, LegacyIncomeTaxThreshold)
         IN  (IF DPos(amount_in_low_bracket)
              THEN <<TaxBracket(Zero, LegacyIncomeTaxThreshold, 1500,
                                amount_in_low_bracket,
                                DMulRate(amount_in_low_bracket, 1500))>>
              ELSE <<>>)
             \o
             (IF DLess(LegacyIncomeTaxThreshold, taxable_income)
              THEN <<TaxBracket(LegacyIncomeTaxThreshold, Dec(999999999), 2300,
                                amount_in_high_bracket,
                                DMulRate(amount_in_high_bracket, 2300))>>
              ELSE <<>>)
    ELSE <<>>

FreelancerCzechiaCalculate(gross_salary) ==
    LET taxable_income == FreelancerCzechiaTaxableIncome(gross_salary)
        income_tax_before_discount == DMulRate(taxable_income, 1500)
        income_tax == DMax(Zero, DSub(income_tax_before_discount,
                                      LegacyTaxpayerDiscount))
        social_base == DMulRate(taxable_income, 5000)
        social_security == DMulRate(social_base, 2920)
        health_insurance == DMulRate(social_base, 1350)
        r1 == AddDeduction([CreateBaseResult(gross_salary) EXCEPT
                                !.tax_base = taxable_income],
                           Deduction("Income Tax", income_tax,
                                     EffectiveRate(income_tax, taxable_income)))
        r2 == AddDeduction(r1, Deduction("Social Security", social_security,
                                         ConfigRate(2920)))
        r3 == AddDeduction(r2, Deduction("Health Insurance", health_insurance,
                                         ConfigRate(1350)))
    IN  [r3 EXCEPT !.income_tax_brackets = FreelancerCzechiaBrackets(taxable_income),
                   !.net_salary = DSub(gross_salary, r3.total_deductions),
                   !.calculation_explanations = LegacyExplanations \cup {"expenses"}]

LegacyCalculators == {"SalariedEmployeeCzechia", "FreelancerCzechia"}

LegacyResult(calculator, gross_salary) ==
    CASE calculator = "SalariedEmployeeCzechia" ->
            SalariedEmployeeCzechiaCalculate(gross_salary)
      [] calculator = "FreelancerCzechia" ->
            FreelancerCzechiaCalculate(gross_salary)

(***************************************************************************)
(* UniversalTaxCalculator (universal_calculator.py).                       *)
(***************************************************************************)
\* "insurance" in name.lower() or "social" in name.lower(), over the names
\* the configurations use.
CountsAsSocialSecurity(name) ==
    name \in {"Pension Insurance", "Health Insurance", "Unemployment Insurance",
              "Long_Term_Care Insurance", "Social Security", "National Insurance",
              "Social Security (Optional)", "Social Security (TSU)",
              "Old-Age Insurance (Base)", "Old-Age Insurance (Supplementary)",
              "CSG (General Social Contribution)", "CRDS (Social Debt Repayment)"}

\* name.lower() == "income tax"
IsIncomeTaxName(name) == name = "Income Tax"

UpdateContext(context, deduction) ==
    LET c1 == IF CountsAsSocialSecurity(deduction.name)
              THEN ContextSet(context, "social_security_total",
                              DAdd(ContextGet(context, "social_security_total", Zero),
                                   deduction.amount))
              ELSE context
    IN  IF IsIncomeTaxName(deduction.name)
        THEN ContextSet(c1, "income_tax_amount", deduction.amount)
        ELSE c1

\* A variant that adds zero-amount deductions as well.
AddsAnyDeduction(deduction) == TRUE

\* if deduction.amount > 0: result.add_deduction(deduction)
AddsDeduction(deduction) == DPos(deduction.amount)

\* A variant in which the context survives from one call to the next.
ContextKeptFromPreviousCall(previous) == previous

\* context: Dict = {}
NewContext(previous) == EmptyContext

\* A variant in which the set survives from one call to the next.
CalculatedDeductionsKeptFromPreviousCall(previous) == previous

\* calculated_deductions = set()
NewCalculatedDeductions(previous) == {}

BuildExplanations(tax_base, context) ==
    {"tax_base"} \cup (IF "deductible_expenses" \in DOMAIN context
                       THEN {"expenses"} ELSE {})

(***************************************************************************)
(* The regime registry (registry.py) and the lookup the command line makes *)
(* (cli/main.py).  The registry is the ordered dict cls._regimes, kept as  *)
(* the sequence of its (key, regime) items; a regime object is named by    *)
(* the key RegimeOf knows it under.                                        *)
(***************************************************************************)
RegisteredAtImport ==
    <<"germany-salaried", "czechia-salaried", "czechia-freelancer",
      "israel-salaried", "spain-madrid", "spain-barcelona", "spain-valencia",
      "romania-freelancer-micro", "bulgaria-freelancer",
      "portugal-salaried", "portugal-freelancer">>

\* cls._regimes after the register calls at the end of registry.py.
RegistryAfterImport ==
    [i \in 1..Len(RegisteredAtImport) |->
        [key |-> RegisteredAtImport[i], regime |-> RegisteredAtImport[i]]]

\* cls._regimes.keys()
RegistryKeys(regimes) == [i \in 1..Len(regimes) |-> regimes[i].key]

\* key in cls._regimes
Registered(regimes, key) == \E i \in 1..Len(regimes) : regimes[i].key = key

\* cls._regimes[key]
RegimeAt(regimes, key) ==
    regimes[CHOOSE i \in 1..Len(regimes) : regimes[i].key = key].regime

\* ", ".join(keys), as the sequence of its pieces from the i-th key on.
RECURSIVE Join(_, _)
Join(keys, i) ==
    IF i > Len(keys) THEN <<>>
    ELSE (IF i = 1 THEN <<>> ELSE <<", ">>) \o <<keys[i]>> \o Join(keys, i + 1)

\* f"Unknown regime: {key}. Available regimes: {available}"
UnknownRegimeMessage(regimes, key) ==
    <<"Unknown regime: ", key, ". Available regimes: ">>
        \o Join(RegistryKeys(regimes), 1)

\* A variant that answers an unknown key with the first registered regime.
TaxRegimeRegistryGetFallsBack(regimes, key) ==
    [raised |-> "none", message |-> <<>>,
     regime |-> IF Registered(regimes, key) THEN RegimeAt(regimes, key)
                ELSE regimes[1].regime]

\* TaxRegimeRegistry.get
TaxRegimeRegistryGet(regimes, key) ==
    IF ~Registered(regimes, key)
    THEN [raised |-> "KeyError", message |-> UnknownRegimeMessage(regimes, key),
          regime |-> "none"]
    ELSE [raised |-> "none", message |-> <<>>, regime |-> RegimeAt(regimes, key)]

\* cls._regimes[key] = regime: a new key goes to the end, a registered key
\* keeps its place and gets the new regime.
RegistryWith(regimes, key, regime_object) ==
    IF Registered(regimes, key)
    THEN [i \in 1..Len(regimes) |->
             IF regimes[i].key = key
             THEN [key |-> key, regime |-> regime_object] ELSE regimes[i]]
    ELSE Append(regimes, [key |-> key, regime |-> regime_object])

\* A variant in which calculate clears the discount of the strategy it ran.
StrategyAfterCalculateDiscountSpent(s, base_amount, context) ==
    [s EXCEPT !.discount = Zero]

\* The strategy object after its calculate ran: no calculate assigns to self,
\* self.config, self.brackets or self.discount.
StrategyAfterCalculate(s, base_amount, context) == s

\* The tax-base strategy object after its calculate ran.
TaxBaseStrategyAfterCalculate(strategy, gross_salary, context) == strategy

\* A variant in which both invocations use one context dict.
ResumedContextShared(own, running) == running

\* The context an invocation finds when it runs again: its own local dict.
ResumedContext(own, running) == own

(***************************************************************************)
(* The currency service (services/currency.py).  A rates dict is None, or *)
(* a record of the CZK rate it holds (None when it holds none), whether it *)
(* holds other currencies, and whether its timestamps are younger than     *)
(* cache_duration.  A rate is a one-element tuple of tenths: <<250>> is    *)
(* 25.0, so that it compares with None.                                    *)
(***************************************************************************)
EmptyRates == [czk |-> None, other |-> FALSE, fresh |-> TRUE]

\* What the HTTP request to exchangerate-api.com can end in: rates with CZK,
\* a body without rates, a requests.RequestException, a body that is no JSON.
PrimaryOutcomes == {"ok", "empty", "RequestException", "ValueError"}

\* What _fetch_from_fixer can end in.
FixerOutcomes == {"ok", "no_api_key", "RequestException", "not_success"}

\* bool(self._rates_cache): None and {} are falsy.
RatesTruthy(rates) == rates /= None /\ (rates.czk /= None \/ rates.other)

\* CurrencyConverter._is_cache_valid
IsCacheValid(rates) == RatesTruthy(rates) /\ rates.fresh

\* CurrencyConverter._fetch_from_fixer
FetchFromFixer(fixer) ==
    IF fixer = "ok"
    THEN [raised |-> FALSE, rates |-> [czk |-> <<243>>, other |-> FALSE, fresh |-> TRUE]]
    ELSE [raised |-> TRUE, rates |-> None]

\* CurrencyConverter._fetch_from_api
FetchFromApi(primary, fixer) ==
    CASE primary = "ok" ->
            [raised |-> FALSE, rates |-> [czk |-> <<251>>, other |-> TRUE, fresh |-> TRUE]]
      [] primary = "empty" -> [raised |-> FALSE, rates |-> EmptyRates]
      [] primary = "RequestException" -> FetchFromFixer(fixer)
      [] OTHER -> [raised |-> TRUE, rates |-> None]

\* self._rates_cache once _get_exchange_rates has loaded the cache file.
LoadedCache(conv) ==
    IF conv.rates_cache = None THEN conv.cache_file ELSE conv.rates_cache

\* A variant that answers a failed fetch with {} whatever the cache holds.
GetExchangeRatesForgetsCache(conv, primary, fixer, save_ok) ==
    IF IsCacheValid(LoadedCache(conv))
    THEN [rates |-> LoadedCache(conv), raised |-> FALSE, fetched |-> FALSE,
          rates_cache |-> LoadedCache(conv), cache_file |-> conv.cache_file]
    ELSE IF FetchFromApi(primary, fixer).raised
    THEN [rates |-> EmptyRates, raised |-> FALSE, fetched |-> TRUE,
          rates_cache |-> LoadedCache(conv), cache_file |-> conv.cache_file]
    ELSE [rates |-> FetchFromApi(primary, fixer).rates, raised |-> FALSE,
          fetched |-> TRUE,
          rates_cache |-> FetchFromApi(primary, fixer).rates,
          cache_file |-> IF save_ok THEN FetchFromApi(primary, fixer).rates
                         ELSE conv.cache_file]

\* CurrencyConverter._get_exchange_rates: the dict returned, whether an
\* exception leaves the method, whether a fetch was tried, and the cache and
\* the cache file afterwards.  _save_to_cache fails silently on IOError.
GetExchangeRates(conv, primary, fixer, save_ok) ==
    IF IsCacheValid(LoadedCache(conv))
    THEN [rates |-> LoadedCache(conv), raised |-> FALSE, fetched |-> FALSE,
          rates_cache |-> LoadedCache(conv), cache_file |-> conv.cache_file]
    ELSE IF FetchFromApi(primary, fixer).raised
    THEN [rates |-> IF RatesTruthy(LoadedCache(conv)) THEN LoadedCache(conv)
                    ELSE EmptyRates,
          raised |-> FALSE, fetched |-> TRUE,
          rates_cache |-> LoadedCache(conv), cache_file |-> conv.cache_file]
    ELSE [rates |-> FetchFromApi(primary, fixer).rates, raised |-> FALSE,
          fetched |-> TRUE,
          rates_cache |-> FetchFromApi(primary, fixer).rates,
          cache_file |-> IF save_ok THEN FetchFromApi(primary, fixer).rates
                         ELSE conv.cache_file]

\* CurrencyConverter.get_eur_to_czk_rate, given what _get_exchange_rates did.
GetEurToCzkRate(got) ==
    IF got.rates.czk = None THEN <<250>> ELSE got.rates.czk

VARIABLES
    pc,                    \* position inside calculate_net_salary
    regime,                \* key of self.regime
    gross_salary,          \* self.gross_salary
    idx,                   \* loop index i of the running for loop
    calculated_deductions, \* the set calculated_deductions
    context,               \* the dict context
    result,                \* the TaxResult under construction
    calls,                 \* log of the strategy.calculate invocations
    saved,                 \* a result a caller kept from an earlier call
    probe,                 \* one strategy.calculate call made on its own
    registry,              \* TaxRegimeRegistry._regimes
    lookup,                \* the outcome of the last get_calculator call
    config,                \* the TaxRegimeConfig object self.regime refers to
    other,                 \* a second invocation, not running at the moment
    listing,               \* what the last list_all or get_keys call returned
    converter              \* the CurrencyConverter, its cache file, its last call

vars == <<pc, regime, gross_salary, idx, calculated_deductions, context,
          result, calls, saved, probe, registry, lookup, config, other,
          listing, converter>>

engine_vars == <<pc, regime, gross_salary, idx, calculated_deductions, context,
                 result, calls, saved>>

NoSaved == [regime |-> "none", gross_salary |-> Zero, result |-> TaxResult(Zero),
            calls_since |-> 0]

NoProbe == [strategy |-> FlatRateDeduction("none", 0, "gross", None),
            base_amount |-> Zero, context |-> EmptyContext, applied |-> FALSE,
            deduction |-> Deduction("none", Zero, ConfigRate(0))]

NoLookup == [key |-> "none", salary |-> Zero, raised |-> "none", message |-> <<>>,
             regime |-> "none", built |-> FALSE]

\* No list_all or get_keys call made yet.
NoListing == [call |-> "none", value |-> <<>>, mutated |-> FALSE]

\* No CurrencyConverter constructed yet.
NoConverter == [rates_cache |-> None, cache_file |-> None, last |-> None]

\* An invocation that has not started.
NoOther == [pc |-> "idle", regime |-> "germany-salaried", gross_salary |-> Zero,
            idx |-> 1, calculated_deductions |-> {}, context |-> EmptyContext,
            result |-> TaxResult(Zero), calls |-> <<>>]

\* self.regime.deduction_strategies; a per-country calculator has none.
Strategies ==
    IF regime \in RegimeKeys \cup CustomRegimeKeys
    THEN RegimeOf(regime).deduction_strategies
    ELSE <<>>

Init ==
    /\ pc = "idle"
    /\ regime = "germany-salaried"
    /\ gross_salary = Zero
    /\ idx = 1
    /\ calculated_deductions = {}
    /\ context = EmptyContext
    /\ result = TaxResult(Zero)
    /\ calls = <<>>
    /\ saved = NoSaved
    /\ probe = NoProbe
    /\ registry = RegistryAfterImport
    /\ lookup = NoLookup
    /\ config = GERMANY_SALARIED
    /\ other = NoOther
    /\ listing = NoListing
    /\ converter = NoConverter

\* UniversalTaxCalculator(gross, regime).calculate_net_salary(), lines 46-71.
Start(r, g) ==
    /\ pc \in {"idle", "done"}
    /\ regime' = r
    /\ gross_salary' = g
    /\ result' = TaxResult(g)
    /\ context' = NewContext(context)
    /\ calculated_deductions' = NewCalculatedDeductions(calculated_deductions)
    /\ calls' = <<>>
    /\ idx' = 1
    /\ pc' = IF RegimeOf(r).tax_base_strategy.kind = "AfterSocialSecurity"
             THEN "prepass" ELSE "base"
    /\ saved' = IF saved = NoSaved \/ saved.calls_since = MaxCallsSince
                THEN saved
                ELSE [saved EXCEPT !.calls_since = @ + 1]
    /\ config' = RegimeOf(r)
    /\ UNCHANGED <<probe, registry, lookup, other,
                   listing, converter>>

\* A variant of the loops that leaves a pass after its first strategy.
AfterStrategyLeavesEarly(phase, next_phase) ==
    /\ idx' = 1
    /\ pc' = next_phase

AfterStrategy(phase, next_phase) ==
    /\ idx' = IF idx = Len(Strategies) THEN 1 ELSE idx + 1
    /\ pc' = IF idx = Len(Strategies) THEN next_phase ELSE phase

\* One strategy.calculate with the bookkeeping that follows it.
RunStrategy(phase, base_amount) ==
    LET out == Calculate(Strategies[idx], base_amount, context)
    IN  /\ result' = IF AddsDeduction(out.deduction)
                     THEN AddDeduction(result, out.deduction)
                     ELSE result
        /\ context' = UpdateContext(out.context, out.deduction)
        /\ calls' = Append(calls, [i |-> idx, phase |-> phase,
                                   base_amount |-> base_amount,
                                   deduction |-> out.deduction,
                                   context_after |-> out.context])
        /\ config' = [config EXCEPT !.deduction_strategies[idx] =
                          StrategyAfterCalculate(Strategies[idx], base_amount,
                                                 context)]

\* Pre-pass loop body, lines 73-80, for a strategy that applies to gross.
PrePassRun ==
    /\ pc = "prepass"
    /\ Strategies[idx].applies_to = "gross"
    /\ RunStrategy("prepass", gross_salary)
    /\ calculated_deductions' = calculated_deductions \cup {idx}
    /\ AfterStrategy("prepass", "base")
    /\ UNCHANGED <<regime, gross_salary, saved, probe,
                   registry, lookup, other,
                   listing, converter>>

\* Pre-pass loop body for a strategy that does not apply to gross.
PrePassSkip ==
    /\ pc = "prepass"
    /\ Strategies[idx].applies_to /= "gross"
    /\ AfterStrategy("prepass", "base")
    /\ UNCHANGED <<regime, gross_salary, calculated_deductions, context, result,
                   calls, saved, probe,
                   registry, lookup, config, other,
                   listing, converter>>

\* Lines 83-84.
ComputeTaxBase ==
    /\ pc = "base"
    /\ LET out == TaxBaseCalculate(RegimeOf(regime).tax_base_strategy,
                                   gross_salary, context)
       IN  /\ result' = [result EXCEPT !.tax_base = out.tax_base]
           /\ context' = out.context
    /\ config' = [config EXCEPT !.tax_base_strategy =
                      TaxBaseStrategyAfterCalculate(
                          RegimeOf(regime).tax_base_strategy, gross_salary, context)]
    /\ pc' = "deduct"
    /\ idx' = 1
    /\ UNCHANGED <<regime, gross_salary, calculated_deductions, calls, saved, probe,
                   registry, lookup, other,
                   listing, converter>>

\* Deduction loop body, lines 87-103, for a strategy not yet calculated.
DeductRun ==
    /\ pc = "deduct"
    /\ idx \notin calculated_deductions
    /\ RunStrategy("deduct", GetBaseAmount(Strategies[idx], gross_salary,
                                           result.tax_base, context))
    /\ AfterStrategy("deduct", "brackets")
    /\ UNCHANGED <<regime, gross_salary, calculated_deductions, saved, probe,
                   registry, lookup, other,
                   listing, converter>>

\* A variant of the deduction loop without the `continue`: a strategy the
\* pre-pass calculated is calculated again.
DeductSkipRunsAgain ==
    /\ pc = "deduct"
    /\ idx \in calculated_deductions
    /\ RunStrategy("deduct", GetBaseAmount(Strategies[idx], gross_salary,
                                           result.tax_base, context))
    /\ AfterStrategy("deduct", "brackets")
    /\ UNCHANGED <<regime, gross_salary, calculated_deductions, saved, probe,
                   registry, lookup, other,
                   listing, converter>>

\* Deduction loop body for a strategy the pre-pass calculated: continue.
DeductSkip ==
    /\ pc = "deduct"
    /\ idx \in calculated_deductions
    /\ AfterStrategy("deduct", "brackets")
    /\ UNCHANGED <<regime, gross_salary, calculated_deductions, context, result,
                   calls, saved, probe,
                   registry, lookup, config, other,
                   listing, converter>>

\* Lines 106-107.
InstallBrackets ==
    /\ pc = "brackets"
    /\ result' = IF "income_tax_brackets" \in DOMAIN context
                 THEN [result EXCEPT !.income_tax_brackets =
                                         context["income_tax_brackets"]]
                 ELSE result
    /\ pc' = "net"
    /\ UNCHANGED <<regime, gross_salary, idx, calculated_deductions, context,
                   calls, saved, probe,
                   registry, lookup, config, other,
                   listing, converter>>

\* Line 110.
SetNetSalary ==
    /\ pc = "net"
    /\ result' = [result EXCEPT !.net_salary =
                                    DSub(gross_salary, result.total_deductions)]
    /\ pc' = "explain"
    /\ UNCHANGED <<regime, gross_salary, idx, calculated_deductions, context,
                   calls, saved, probe,
                   registry, lookup, config, other,
                   listing, converter>>

\* Lines 113-115.
Return ==
    /\ pc = "explain"
    /\ result' = [result EXCEPT !.calculation_explanations =
                                    BuildExplanations(result.tax_base, context)]
    /\ pc' = "done"
    /\ UNCHANGED <<regime, gross_salary, idx, calculated_deductions, context,
                   calls, saved, probe,
                   registry, lookup, config, other,
                   listing, converter>>

\* The caller keeps the returned result to compare it with later ones
\* (test_calculation_consistency).
KeepResult ==
    /\ pc = "done"
    /\ saved' = [regime |-> regime, gross_salary |-> gross_salary, result |-> result,
                 calls_since |-> 0]
    /\ UNCHANGED <<pc, regime, gross_salary, idx, calculated_deductions, context,
                   result, calls, probe,
                   registry, lookup, config, other,
                   listing, converter>>

\* calculator(gross).calculate_net_salary() of a per-country calculator.
LegacyCalculate(calculator, g) ==
    /\ pc \in {"idle", "done"}
    /\ regime' = calculator
    /\ gross_salary' = g
    /\ result' = LegacyResult(calculator, g)
    /\ context' = EmptyContext
    /\ calculated_deductions' = {}
    /\ calls' = <<>>
    /\ idx' = 1
    /\ pc' = "done"
    /\ UNCHANGED <<saved, probe,
                   registry, lookup, config, other,
                   listing, converter>>

Next ==
    \/ \E r \in RegimeKeys, g \in GrossValues : Start(r, g)
    \/ \E c \in LegacyCalculators, g \in GrossValues : LegacyCalculate(c, g)
    \/ PrePassRun
    \/ PrePassSkip
    \/ ComputeTaxBase
    \/ DeductRun
    \/ DeductSkip
    \/ InstallBrackets
    \/ SetNetSalary
    \/ Return

Spec == Init /\ [][Next]_vars

\* Calculations whose results a caller keeps and compares with later ones.
NextKeeping ==
    \/ \E r \in RegimeKeys, g \in KeepingGross : Start(r, g)
    \/ PrePassRun
    \/ PrePassSkip
    \/ ComputeTaxBase
    \/ DeductRun
    \/ DeductSkip
    \/ InstallBrackets
    \/ SetNetSalary
    \/ Return
    \/ KeepResult

SpecKeeping == Init /\ [][NextKeeping]_vars

(***************************************************************************)
(* One deduction strategy called on its own, the way the deduction loop    *)
(* calls it: strategy.calculate(strategy.get_base_amount(b, b, context),   *)
(* context), for strategies built from DeductionConfig values, amounts b   *)
(* and contexts drawn from the sets below.                                 *)
(***************************************************************************)
ProbeCeilings == {None, Zero, Dec(47100), Dec(376800)}
ProbeFloors == {None, Dec(47100)}
ProbeRates == {0, 864, 10000}
ProbeBases ==
    {DSub(Zero, Dec(1000)), Zero, Dec(1), Dec(30000), Dec(47100), Dec(50000),
     Dec(376800), Dec(400000), Dec(MaxGrossSteps * GrossStep)}

\* The income tax an earlier strategy left in the context, if any.
ProbeIncomeTaxes == {Dec(999), Dec(1000), DecHundredths(100001), Dec(5000)}
ProbeContexts ==
    {EmptyContext}
    \cup {ContextSet(EmptyContext, "income_tax_amount", t) : t \in ProbeIncomeTaxes}

\* FlatRateDeduction accepts every DeductionConfig; CappedPercentageDeduction
\* raises ValueError for a ceiling that is None or zero.
ProbeStrategies ==
    {FlatRateDeduction("Probe", r, "gross", c) : r \in ProbeRates, c \in ProbeCeilings}
    \cup
    {CappedPercentageDeduction("Probe", r, "gross", c, f) :
        r \in ProbeRates, c \in {x \in ProbeCeilings : Truthy(x)}, f \in ProbeFloors}
    \cup
    {ProgressiveTaxDeduction("Income Tax", "gross", CzechiaBrackets, d) :
        d \in {None, Convert("CZK", Dec(30840))}}
    \cup
    {PercentageOfTaxBaseDeduction("Probe", r, "gross", 5000) : r \in ProbeRates}
    \cup
    {ConditionalDeduction("Solidarity Surcharge", 550, a, "income_tax_above_1000") :
        a \in {"income_tax", "gross"}}

InitProbe ==
    /\ pc = "idle"
    /\ regime = "germany-salaried"
    /\ gross_salary = Zero
    /\ idx = 1
    /\ calculated_deductions = {}
    /\ context = EmptyContext
    /\ result = TaxResult(Zero)
    /\ calls = <<>>
    /\ saved = NoSaved
    /\ registry = RegistryAfterImport
    /\ lookup = NoLookup
    /\ config = GERMANY_SALARIED
    /\ other = NoOther
    /\ listing = NoListing
    /\ converter = NoConverter
    /\ \E s \in ProbeStrategies, b \in ProbeBases, c \in ProbeContexts :
          probe = [NoProbe EXCEPT !.strategy = s,
                                  !.base_amount = GetBaseAmount(s, b, b, c),
                                  !.context = c]

ApplyProbe ==
    /\ ~probe.applied
    /\ probe' = [probe EXCEPT
                    !.applied = TRUE,
                    !.deduction = Calculate(probe.strategy, probe.base_amount,
                                            probe.context).deduction]
    /\ UNCHANGED <<engine_vars, registry, lookup, config, other,
                   listing, converter>>

NextProbe == ApplyProbe

SpecProbe == InitProbe /\ [][NextProbe]_vars

(***************************************************************************)
(* The command line: get_calculator looks the regime up and builds the     *)
(* calculator, whose calculate_net_salary the command then runs.           *)
(***************************************************************************)
CliKeys ==
    {RegisteredAtImport[i] : i \in 1..Len(RegisteredAtImport)}
    \cup {"france-salaried", "germany", ""}

CliSalaries == {Dec(30000), Dec(80100)}

\* get_calculator(calc_type, salary): a KeyError of the lookup becomes a
\* ClickException carrying its message.
GetCalculator(calc_type, salary) ==
    /\ pc \in {"idle", "done"}
    /\ LET got == TaxRegimeRegistryGet(registry, calc_type)
       IN  lookup' = [key |-> calc_type, salary |-> salary,
                      raised |-> IF got.raised = "KeyError"
                                 THEN "ClickException" ELSE "none",
                      message |-> got.message,
                      regime |-> got.regime,
                      built |-> got.raised = "none"]
    /\ UNCHANGED <<engine_vars, probe, registry, config, other,
                   listing, converter>>

\* calculator.calculate_net_salary() on the calculator get_calculator built.
CalculateBuilt ==
    /\ lookup.built
    /\ Start(lookup.regime, lookup.salary)

NextCli ==
    \/ \E k \in CliKeys, g \in CliSalaries : GetCalculator(k, g)
    \/ CalculateBuilt
    \/ PrePassRun
    \/ PrePassSkip
    \/ ComputeTaxBase
    \/ DeductRun
    \/ DeductSkip
    \/ InstallBrackets
    \/ SetNetSalary
    \/ Return

SpecCli == Init /\ [][NextCli]_vars

(***************************************************************************)
(* Two calculate_net_salary invocations on one regime object, interleaved  *)
(* between any two steps.  An invocation's gross_salary, context, result,  *)
(* calculated_deductions and loop index are attributes of its calculator   *)
(* and locals of its call; the regime object is shared.  A first result is *)
(* kept from an invocation that ran alone.                                 *)
(***************************************************************************)
ConcurrentRegime == "germany-salaried"

ConcurrentGross == {Dec(20769), Dec(20770)}

\* The running invocation.
Running ==
    [pc |-> pc, regime |-> regime, gross_salary |-> gross_salary, idx |-> idx,
     calculated_deductions |-> calculated_deductions, context |-> context,
     result |-> result, calls |-> calls]

\* The scheduler stops the running invocation and lets the other one run.
Switch ==
    /\ saved /= NoSaved
    /\ other' = Running
    /\ pc' = other.pc
    /\ regime' = other.regime
    /\ gross_salary' = other.gross_salary
    /\ idx' = other.idx
    /\ calculated_deductions' = other.calculated_deductions
    /\ context' = ResumedContext(other.context, context)
    /\ result' = other.result
    /\ calls' = other.calls
    /\ UNCHANGED <<saved, probe, registry, lookup, config, listing, converter>>

\* The result of an invocation that ran while no other had started.
KeepAlone ==
    /\ other = NoOther
    /\ KeepResult

NextConcurrent ==
    \/ \E g \in ConcurrentGross : Start(ConcurrentRegime, g)
    \/ PrePassRun
    \/ PrePassSkip
    \/ ComputeTaxBase
    \/ DeductRun
    \/ DeductSkip
    \/ InstallBrackets
    \/ SetNetSalary
    \/ Return
    \/ KeepAlone
    \/ Switch

SpecConcurrent == Init /\ [][NextConcurrent]_vars

(***************************************************************************)
(* The registry's class methods called in any order after import:          *)
(* register, get (through get_calculator), list_all, get_keys, and a       *)
(* caller changing the dict list_all gave it.                              *)
(***************************************************************************)
\* TaxRegimeRegistry.register(key, regime)
Register(key, regime_object) ==
    /\ registry' = RegistryWith(registry, key, regime_object)
    /\ UNCHANGED <<engine_vars, probe, lookup, config, other, listing, converter>>

\* TaxRegimeRegistry.list_all(): cls._regimes.copy()
ListAll ==
    /\ listing' = [call |-> "list_all", value |-> registry, mutated |-> FALSE]
    /\ UNCHANGED <<engine_vars, probe, registry, lookup, config, other, converter>>

\* TaxRegimeRegistry.get_keys(): list(cls._regimes.keys())
GetKeys ==
    /\ listing' = [call |-> "get_keys", value |-> RegistryKeys(registry),
                   mutated |-> FALSE]
    /\ UNCHANGED <<engine_vars, probe, registry, lookup, config, other, converter>>

\* The caller deletes the first item of the dict list_all returned.
MutateListed ==
    /\ listing.call = "list_all"
    /\ ~listing.mutated
    /\ listing.value /= <<>>
    /\ listing' = [listing EXCEPT !.value = Tail(@), !.mutated = TRUE]
    /\ UNCHANGED <<engine_vars, probe, registry, lookup, config, other, converter>>

NextRegistry ==
    \/ \E k \in {"germany-salaried", "france-salaried"} :
          Register(k, "france-salaried")
    \/ \E k \in CliKeys, g \in CliSalaries : GetCalculator(k, g)
    \/ ListAll
    \/ GetKeys
    \/ MutateListed

SpecRegistry == Init /\ [][NextRegistry]_vars

(***************************************************************************)
(* Calculations over every built regime and the caller-built one.          *)
(***************************************************************************)
ConfiguredSalaries == {Zero, Dec(30000), Dec(80100)}

NextConfigured ==
    \/ \E r \in RegimeKeys \cup CustomRegimeKeys, g \in ConfiguredSalaries :
          Start(r, g)
    \/ PrePassRun
    \/ PrePassSkip
    \/ ComputeTaxBase
    \/ DeductRun
    \/ DeductSkip
    \/ InstallBrackets
    \/ SetNetSalary
    \/ Return

SpecConfigured == Init /\ [][NextConfigured]_vars

(***************************************************************************)
(* Calls of get_eur_to_czk_rate over time: the network answers or fails,   *)
(* cached timestamps grow older than cache_duration, and a new process     *)
(* starts with an empty in-memory cache and the cache file left on disk.   *)
(***************************************************************************)
\* converter.get_eur_to_czk_rate()
GetRate(primary, fixer, save_ok) ==
    /\ LET got == GetExchangeRates(converter, primary, fixer, save_ok)
       IN  converter' =
               [rates_cache |-> got.rates_cache,
                cache_file |-> got.cache_file,
                last |-> [cache_before |-> LoadedCache(converter),
                          primary |-> primary, fixer |-> fixer,
                          fetched |-> got.fetched, raised |-> got.raised,
                          returned |-> GetEurToCzkRate(got)]]
    /\ UNCHANGED <<engine_vars, probe, registry, lookup, config, other, listing>>

\* datetime.now() moves past the cached timestamps by cache_duration.
TimePasses ==
    /\ \/ (converter.rates_cache /= None /\ converter.rates_cache.fresh)
       \/ (converter.cache_file /= None /\ converter.cache_file.fresh)
    /\ converter' =
           [converter EXCEPT
               !.rates_cache = IF @ = None THEN @ ELSE [@ EXCEPT !.fresh = FALSE],
               !.cache_file = IF @ = None THEN @ ELSE [@ EXCEPT !.fresh = FALSE]]
    /\ UNCHANGED <<engine_vars, probe, registry, lookup, config, other, listing>>

\* A new process: CurrencyConverter() with self._rates_cache = None.
NewProcess ==
    /\ converter.rates_cache /= None
    /\ converter' = [converter EXCEPT !.rates_cache = None]
    /\ UNCHANGED <<engine_vars, probe, registry, lookup, config, other, listing>>

NextCurrency ==
    \/ \E p \in PrimaryOutcomes, f \in FixerOutcomes, save_ok \in BOOLEAN :
          GetRate(p, f, save_ok)
    \/ TimePasses
    \/ NewProcess

SpecCurrency == Init /\ [][NextCurrency]_vars

(***************************************************************************)
(* Properties.                                                             *)
(***************************************************************************)
SumOfAmounts(deductions) ==
    DSum([i \in 1..Len(deductions) |-> deductions[i].amount])

Conserved(r) == r.net_salary = DSub(r.gross_salary, r.total_deductions)

TotalIsSum(r) == r.total_deductions = SumOfAmounts(r.deductions)

DAbs(a) == IF DLess(a, Zero) THEN DSub(Zero, a) ELSE a

StrategyOfCall(k) == Strategies[calls[k].i]

ProgressiveCalls == {k \in DOMAIN calls : StrategyOfCall(k).kind = "Progressive"}

RecordedBrackets(k) == calls[k].context_after["income_tax_brackets"]

TaxBeforeDiscount(k) ==
    DSum([j \in 1..Len(RecordedBrackets(k)) |-> RecordedBrackets(k)[j].tax_amount])

\* C1: every returned result has net_salary == gross_salary - total_deductions
\* and total_deductions == the sum of the amounts of its deductions list.
C1_ConservationAtReturn ==
    (pc = "done" /\ regime \in RegimeKeys) => Conserved(result) /\ TotalIsSum(result)

C1_Witness ==
    /\ pc = "done"
    /\ regime \in RegimeKeys
    /\ gross_salary = Dec(MaxGrossSteps * GrossStep)
    /\ Len(result.deductions) >= 3

\* A kept result and a later result of the same regime at a gross salary
\* that is not lower.
SameRegimeOrdered ==
    /\ pc = "done"
    /\ saved.regime = regime
    /\ DLeq(saved.gross_salary, gross_salary)

\* C2 (as claimed): for a fixed regime and g1 <= g2, net(g1) <= net(g2).
C2_Monotone ==
    SameRegimeOrdered => DLeq(saved.result.net_salary, result.net_salary)

ConditionalNames ==
    {Strategies[i].name : i \in {j \in DOMAIN Strategies :
                                    Strategies[j].kind = "Conditional"}}

AppliedConditionals(r) ==
    {r.deductions[i].name : i \in DOMAIN r.deductions} \cap ConditionalNames

\* C2 (amended): for a fixed regime and g1 <= g2 at which the same
\* Conditional deductions apply (in particular for every regime without a
\* Conditional deduction), net(g1) <= net(g2).
C2_MonotoneSameConditionals ==
    (SameRegimeOrdered /\ AppliedConditionals(saved.result) = AppliedConditionals(result))
        => DLeq(saved.result.net_salary, result.net_salary)

C2_Witness ==
    /\ SameRegimeOrdered
    /\ regime = "germany-salaried"
    /\ DLess(saved.gross_salary, gross_salary)
    /\ AppliedConditionals(saved.result) /= {}
    /\ AppliedConditionals(result) /= {}

\* C3 (as claimed): after every mutation of the TaxResult (each add_deduction,
\* the tax_base assignment, the bracket installation, the final net_salary
\* assignment) net_salary == gross_salary - total_deductions and
\* total_deductions == sum of the deductions' amounts.
C3_InvariantAfterEveryMutation ==
    (/\ regime \in RegimeKeys
     /\ \/ pc \in {"deduct", "brackets", "net", "explain", "done"}
        \/ (pc = "prepass" /\ Len(result.deductions) > 0))
    => Conserved(result) /\ TotalIsSum(result)

\* C3 (amended): in every state of a calculation total_deductions is the sum
\* of the deductions' amounts; net_salary == gross_salary - total_deductions
\* holds once a deduction has been added or the final net_salary assignment
\* has run, and until then net_salary is still the 0 it was constructed with.
C3_InvariantOnceDeducted ==
    (pc /= "idle" /\ regime \in RegimeKeys) =>
        /\ TotalIsSum(result)
        /\ (Len(result.deductions) > 0 \/ pc \in {"explain", "done"})
              => Conserved(result)
        /\ (Len(result.deductions) = 0 /\ pc \notin {"explain", "done"})
              => result.net_salary = Zero

C3_Witness ==
    /\ pc = "deduct"
    /\ Len(result.deductions) > 0
    /\ Len(calls) < Len(Strategies)
    /\ DPos(gross_salary)

\* C4: a CappedPercentage deduction configured with a floor has amount zero
\* when the base is below the floor, and otherwise applies the rate to the
\* part of the base above the floor and up to the ceiling.
C4_FloorRespected ==
    \A k \in DOMAIN calls :
        LET s == StrategyOfCall(k)
            base == calls[k].base_amount
        IN  (s.kind = "CappedPercentage" /\ s.floor /= None) =>
                calls[k].deduction.amount =
                    IF DLess(base, s.floor) THEN Zero
                    ELSE DMulRate(DSub(DMin(base, s.ceiling), s.floor), s.rate)

\* C5: a FlatRate deduction with a ceiling configured (zero included) and a
\* CappedPercentage deduction have amount min(base, ceiling) * rate, which
\* never exceeds ceiling * rate.
C5_CeilingRespected ==
    LET s == probe.strategy
    IN  (probe.applied /\ s.ceiling /= None) =>
            /\ probe.deduction.amount =
                   DMulRate(DMin(probe.base_amount, s.ceiling), s.rate)
            /\ DLeq(probe.deduction.amount, DMulRate(s.ceiling, s.rate))

PartInBracket(base, lower_bound, upper_bound) ==
    DSub(DMin(base, upper_bound), lower_bound)

BracketsExact(k) ==
    LET B == RecordedBrackets(k)
        base == calls[k].base_amount
    IN  /\ \A j \in DOMAIN B :
              /\ B[j].tax_amount = DMulRate(B[j].taxable_amount, B[j].rate)
              /\ B[j].taxable_amount =
                     PartInBracket(base, B[j].lower_bound, B[j].upper_bound)
              /\ \E c \in DOMAIN StrategyOfCall(k).brackets :
                     /\ StrategyOfCall(k).brackets[c].lower_bound = B[j].lower_bound
                     /\ StrategyOfCall(k).brackets[c].rate = B[j].rate
        /\ DSum([j \in 1..Len(B) |-> B[j].taxable_amount]) = base

TwoBracketsAboveThreshold(k) ==
    LET B == RecordedBrackets(k)
        base == calls[k].base_amount
        T == StrategyOfCall(k).brackets[1].upper_bound
    IN  DLess(T, base) =>
            /\ Len(B) = 2
            /\ B[1].taxable_amount = T
            /\ B[2].taxable_amount = DSub(base, T)

\* C6 (as claimed): each recorded bracket has tax_amount == taxable_amount *
\* rate and taxable_amount equal to the part of the base in that bracket, the
\* taxable amounts sum to the base, and a two-bracket schedule with threshold
\* T records one bracket when base <= T and two (T, base - T) when base > T.
C6_BracketsExact ==
    \A k \in ProgressiveCalls :
        /\ BracketsExact(k)
        /\ Len(StrategyOfCall(k).brackets) = 2 =>
              /\ TwoBracketsAboveThreshold(k)
              /\ DLeq(calls[k].base_amount, StrategyOfCall(k).brackets[1].upper_bound)
                    => Len(RecordedBrackets(k)) = 1

\* C6 (amended): as claimed, except that a two-bracket schedule records one
\* bracket when 0 < base <= T and no bracket when base == 0.
C6_BracketsExactPositiveBase ==
    \A k \in ProgressiveCalls :
        /\ BracketsExact(k)
        /\ Len(StrategyOfCall(k).brackets) = 2 =>
              /\ TwoBracketsAboveThreshold(k)
              /\ (DPos(calls[k].base_amount)
                  /\ DLeq(calls[k].base_amount, StrategyOfCall(k).brackets[1].upper_bound))
                    => /\ Len(RecordedBrackets(k)) = 1
                       /\ RecordedBrackets(k)[1].taxable_amount = calls[k].base_amount
              /\ calls[k].base_amount = Zero => RecordedBrackets(k) = <<>>

C6_Witness ==
    \E k \in ProgressiveCalls :
        /\ Len(StrategyOfCall(k).brackets) = 2
        /\ Len(RecordedBrackets(k)) = 2

\* The names under which a result lists its income tax.
IncomeTaxNames ==
    IF regime \in RegimeKeys
    THEN {Strategies[i].name : i \in {j \in DOMAIN Strategies :
                                         Strategies[j].kind = "Progressive"}}
    ELSE {"Income Tax"}

\* The amount of the result's income-tax deduction, 0 when the list has none.
IncomeTaxAmount(r) ==
    SumOfAmounts(SelectSeq(r.deductions, LAMBDA d : d.name \in IncomeTaxNames))

\* The discount subtracted from the income tax, 0 when there is none.
RegimeDiscount ==
    CASE regime \in RegimeKeys ->
            DSum([i \in DOMAIN Strategies |->
                     IF Strategies[i].kind = "Progressive"
                     THEN Strategies[i].discount ELSE Zero])
      [] regime = "FreelancerCzechia" -> LegacyTaxpayerDiscount
      [] OTHER -> Zero

\* The income tax the discount is subtracted from: the brackets' sum, except
\* that FreelancerCzechia taxes its whole tax base at the low rate.
IncomeTaxBeforeDiscount(r) ==
    IF regime = "FreelancerCzechia" THEN DMulRate(r.tax_base, 1500)
    ELSE TotalIncomeTax(r)

C8_DiscountFloor ==
    \A k \in ProgressiveCalls :
        LET amount == calls[k].deduction.amount
            discount == StrategyOfCall(k).discount
        IN  /\ DLeq(Zero, amount)
            /\ DLeq(TaxBeforeDiscount(k), discount) => amount = Zero
            /\ DLess(discount, TaxBeforeDiscount(k))
                  => amount = DSub(TaxBeforeDiscount(k), discount)
            /\ calls[k].context_after["income_tax_amount"] = amount
            /\ k = Len(calls) => context["income_tax_amount"] = amount

C8_Witness ==
    \E k \in ProgressiveCalls :
        /\ DPos(TaxBeforeDiscount(k))
        /\ DLeq(TaxBeforeDiscount(k), StrategyOfCall(k).discount)

\* C9: every entry of the deductions list has amount > 0; the list is the
\* deductions computed so far without those whose amount is zero.
C9_ZeroSuppressed ==
    (pc /= "idle" /\ regime \in RegimeKeys) =>
        /\ \A i \in DOMAIN result.deductions : DPos(result.deductions[i].amount)
        /\ LET kept == SelectSeq(calls, LAMBDA c : c.deduction.amount /= Zero)
           IN  result.deductions = [i \in 1..Len(kept) |-> kept[i].deduction]
        /\ result.total_deductions =
               DSum([k \in 1..Len(calls) |-> calls[k].deduction.amount])

C9_Witness ==
    /\ pc = "done"
    /\ DPos(gross_salary)
    /\ \E k \in DOMAIN calls :
          /\ StrategyOfCall(k).kind = "Conditional"
          /\ calls[k].deduction.amount = Zero
    /\ \E k \in DOMAIN calls :
          /\ StrategyOfCall(k).kind = "Progressive"
          /\ calls[k].deduction.amount = Zero

\* C10: a call with the same (gross, regime) as an earlier call returns the
\* same tax_base, net_salary, total_deductions, deductions and brackets,
\* whatever calls ran in between.
C10_Idempotent ==
    (pc = "done" /\ saved.regime = regime /\ saved.gross_salary = gross_salary)
        => saved.result = result

C10_Witness ==
    /\ pc = "done"
    /\ saved.regime = regime
    /\ saved.gross_salary = gross_salary
    /\ saved.calls_since = MaxCallsSince
    /\ Len(result.deductions) > 0

AfterSocialSecurityRegime ==
    /\ regime \in RegimeKeys
    /\ RegimeOf(regime).tax_base_strategy.kind = "AfterSocialSecurity"

TaxBaseKnown == pc \in {"deduct", "brackets", "net", "explain", "done"}

PrePassCalls == {k \in DOMAIN calls : calls[k].phase = "prepass"}

\* The sum of the amounts of the deductions the pre-pass applied to the result.
PrePassTotal ==
    DSum([k \in 1..Len(calls) |->
             IF k \in PrePassCalls THEN calls[k].deduction.amount ELSE Zero])

\* C11: in a regime whose tax base is AfterSocialSecurity, with S the sum of
\* the amounts of the deductions applied to the result in the pre-pass,
\* tax_base == gross_salary - S exactly.
C11_TaxBaseIsGrossLessPrePass ==
    (AfterSocialSecurityRegime /\ TaxBaseKnown)
        => result.tax_base = DSub(gross_salary, PrePassTotal)

\* C12: in a regime whose tax base is AfterSocialSecurity, the progressive
\* income tax is computed after the tax base is known, on the tax base
\* gross_salary - S and never on gross_salary.
C12_IncomeTaxOnTaxBase ==
    AfterSocialSecurityRegime =>
        \A k \in ProgressiveCalls :
            /\ calls[k].phase = "deduct"
            /\ calls[k].base_amount = result.tax_base
            /\ DPos(PrePassTotal) => calls[k].base_amount /= gross_salary

SpanishRegime ==
    /\ regime \in RegimeKeys
    /\ RegimeOf(regime).tax_base_strategy.kind = "SpanishEmploymentIncome"

\* The amount of the result's social-security deduction, 0 when it has none.
SocialSecurityAmount(r) ==
    SumOfAmounts(SelectSeq(r.deductions, LAMBDA d : d.name = "Social Security"))

\* The employment-income reduction as the claim states it.
StatedReduction(net_income) ==
    IF DLeq(net_income, DecHundredths(1404750)) THEN Dec(6498)
    ELSE IF DLeq(DecHundredths(1974750), net_income) THEN Dec(2000)
    ELSE DSub(Dec(6498),
              DDivWhole(DMulWhole(DSub(net_income, DecHundredths(1404750)),
                                  Dec(4498)),
                        Dec(5700)))

StatedSpanishTaxBase(net_income) ==
    DSub(net_income, StatedReduction(net_income))

\* C13: in a Spanish regime the returned tax_base equals net_income -
\* reduction, where net_income is gross_salary minus the amount of the
\* regime's social-security deduction and reduction is 6498 up to 14047.50,
\* 2000 from 19747.50, linearly interpolated in between, and always within
\* [2000, 6498].
C13_SpanishTaxBase ==
    (SpanishRegime /\ pc = "done") =>
        /\ result.tax_base =
               StatedSpanishTaxBase(DSub(gross_salary, SocialSecurityAmount(result)))
        /\ DLeq(Dec(2000), context["employment_income_reduction"])
        /\ DLeq(context["employment_income_reduction"], Dec(6498))

FlatRateExpenseRegime ==
    /\ regime \in RegimeKeys
    /\ RegimeOf(regime).tax_base_strategy.kind = "FlatRateExpense"

\* The taxable base the claim states for a gross salary, a rate and a cap.
StatedFlatRateExpenseBase(gross, taxable_rate, expense_cap) ==
    IF DLeq(gross, expense_cap)
    THEN DMulRate(gross, taxable_rate)
    ELSE DAdd(DMulRate(expense_cap, taxable_rate), DSub(gross, expense_cap))

CzechFreelancerDone ==
    /\ pc = "done"
    /\ regime \in {"FreelancerCzechia", "czechia-freelancer"}

SurchargeCalled ==
    /\ probe.applied
    /\ probe.strategy.kind = "Conditional"
    /\ probe.strategy.applies_to = "income_tax"

ProbeIncomeTax == ContextGet(probe.context, "income_tax_amount", Zero)

\* C16: a Conditional deduction on the income-tax amount with threshold
\* T = 1000 and rate 5.5% is zero and not added to the result when the income
\* tax is exactly T (or below), and equals rate * income_tax when the income
\* tax is above T, income_tax being the amount the calculation's Income Tax
\* left in the context.
C16_SurchargeStrictlyAboveThreshold ==
    SurchargeCalled =>
        /\ probe.base_amount = ProbeIncomeTax
        /\ DLeq(ProbeIncomeTax, Dec(1000))
              => /\ probe.deduction.amount = Zero
                 /\ ~AddsDeduction(probe.deduction)
        /\ DLess(Dec(1000), ProbeIncomeTax)
              => /\ probe.deduction.amount =
                        DMulRate(ProbeIncomeTax, probe.strategy.rate)
                 /\ AddsDeduction(probe.deduction)

C16_Witness ==
    /\ SurchargeCalled
    /\ ProbeIncomeTax = Dec(1000)
    /\ probe.deduction.amount = Zero

\* The pieces of an error message.
Pieces(message) == {message[i] : i \in 1..Len(message)}

LookupFailed == lookup.raised /= "none"

\* A lookup of an unregistered key has failed.
UnknownKeyRefused ==
    (lookup.key /= "none" /\ ~Registered(registry, lookup.key)) => LookupFailed

\* The message of a failed lookup names the key and lists the registered
\* keys; no regime was returned and no calculator built.
FailureNamesKeys ==
    LookupFailed =>
        /\ lookup.message[2] = lookup.key
        /\ \A i \in 1..Len(registry) : registry[i].key \in Pieces(lookup.message)
        /\ ~lookup.built
        /\ lookup.regime = "none"

\* The step of a failing lookup changes neither the registry nor any
\* calculation state.
FailedLookupTouchesNothing ==
    (LookupFailed' /\ lookup' /= lookup)
        => (registry' = registry /\ UNCHANGED <<engine_vars, config>>)

\* C17: a lookup with a key that is not registered fails with an error whose
\* message names the requested key and lists every registered key; the failed
\* lookup leaves the registry unchanged, builds no calculator and produces no
\* TaxResult, partial or not.
C17_UnknownKeyFails ==
    /\ [](UnknownKeyRefused /\ FailureNamesKeys)
    /\ [][FailedLookupTouchesNothing]_vars
    /\ [][LookupFailed => UNCHANGED <<engine_vars, config>>]_vars

C17_Witness ==
    /\ LookupFailed
    /\ lookup.key = "france-salaried"
    /\ pc = "done"
    /\ Len(result.deductions) > 0

\* C18: for every deduction strategy variant a base amount that is zero or
\* negative yields a Deduction with amount exactly zero, and every Deduction
\* created has amount >= 0.
C18_NoNegativeDeduction ==
    probe.applied =>
        /\ DLeq(probe.base_amount, Zero) => probe.deduction.amount = Zero
        /\ DLeq(Zero, probe.deduction.amount)

\* C19: a calculation never changes shared configuration: in every state of
\* a calculation, and after it returned, the TaxRegimeConfig in use (its
\* tax-base strategy, its ordered deduction strategies, their configs,
\* brackets and discounts) is as it was built, and the registry's
\* key-to-regime mapping is as it was after registration.
C19_ConfigurationUnchanged ==
    /\ registry = RegistryAfterImport
    /\ regime \in RegimeKeys => config = RegimeOf(regime)

C19_Witness ==
    /\ pc = "done"
    /\ lookup.built
    /\ regime = "czechia-freelancer"
    /\ Len(calls) = Len(config.deduction_strategies)
    /\ DPos(config.deduction_strategies[1].discount)
    /\ Len(result.income_tax_brackets) > 0

\* A finished invocation returned what the invocation kept from running alone
\* with the same regime and gross salary returned.
ReturnsWhatItReturnsAlone(invocation) ==
    (/\ invocation.pc = "done"
     /\ saved.regime = invocation.regime
     /\ saved.gross_salary = invocation.gross_salary)
    => invocation.result = saved.result

\* C20: when calculate_net_salary invocations on the same regime object are
\* interleaved between strategy steps, each works on its own context and
\* TaxResult and returns exactly the result it returns when run alone.
C20_IsolatedUnderInterleaving ==
    /\ ReturnsWhatItReturnsAlone(Running)
    /\ ReturnsWhatItReturnsAlone(other)

C20_Witness ==
    /\ pc = "done"
    /\ saved.gross_salary = gross_salary
    /\ Len(result.deductions) > 0
    /\ other.pc = "deduct"
    /\ other.gross_salary /= gross_salary
    /\ Len(other.calls) > 0
    /\ Len(other.calls) < Len(calls)

\* A step keeps every registered key, its regime and its place.
RegistrationsKept ==
    /\ Len(registry') >= Len(registry)
    /\ \A i \in 1..Len(registry) : registry'[i] = registry[i]

\* A get_keys call returns the keys in registration order.
KeysInRegistrationOrder ==
    (/\ listing'.call = "get_keys"
     /\ (listing.call /= "get_keys" \/ listing'.value /= listing.value))
    => listing'.value = RegistryKeys(registry)

\* Changing the dict list_all returned leaves the registry as it is.
ListedIsACopy ==
    (listing.call = "list_all" /\ listing'.mutated /\ ~listing.mutated)
        => registry' = registry

\* C21: the registry is write-once: after any register, get, list_all and
\* get_keys calls a registered key still gives the regime object it was
\* registered with, get_keys returns the keys in registration order, and
\* changing the mapping list_all returned does not change the registry.
C21_WriteOnce ==
    /\ [](lookup.built => lookup.regime = RegimeAt(registry, lookup.key))
    /\ [][RegistrationsKept /\ KeysInRegistrationOrder /\ ListedIsACopy]_vars

\* The last get_eur_to_czk_rate call.
RateCall == converter.last

\* The CZK rate a rates dict holds, the hardcoded 25.0 when it holds none.
CachedRateOrFallback(rates) ==
    IF rates /= None /\ rates.czk /= None THEN rates.czk ELSE <<250>>

\* The primary API and the fixer fallback both failed.
BothFetchesFailed ==
    /\ RateCall.fetched
    /\ RateCall.primary = "RequestException"
    /\ RateCall.fixer /= "ok"

\* C22: get_eur_to_czk_rate never raises when the rate fetch fails; when the
\* primary API and the fixer fallback both fail it returns the last cached
\* CZK rate, expired or not, and 25.0 when no CZK rate is cached; a cache
\* younger than cache_duration is returned without any fetch.
C22_RateDegradation ==
    RateCall /= None =>
        /\ ~RateCall.raised
        /\ BothFetchesFailed
              => RateCall.returned = CachedRateOrFallback(RateCall.cache_before)
        /\ (/\ RateCall.cache_before /= None
            /\ RateCall.cache_before.fresh
            /\ RateCall.cache_before.czk /= None)
           => /\ ~RateCall.fetched
              /\ RateCall.returned = RateCall.cache_before.czk

C22_Witness ==
    /\ RateCall /= None
    /\ BothFetchesFailed
    /\ RateCall.cache_before /= None
    /\ ~RateCall.cache_before.fresh
    /\ RateCall.cache_before.czk = <<243>>
    /\ RateCall.returned = <<243>>
    /\ converter.rates_cache = RateCall.cache_before

\* The calls of calculate on the strategy at place i of the regime's list.
CallsOf(i) == {k \in DOMAIN calls : calls[k].i = i}

\* Both loops over the strategies are over.
DeductionsApplied == pc \in {"brackets", "net", "explain", "done"}

\* C23: in every calculation each deduction strategy of the regime's list has
\* calculate invoked exactly once: never twice while the calculation runs,
\* and once when both passes are over.
C23_EachStrategyOnce ==
    \A i \in DOMAIN Strategies :
        /\ Cardinality(CallsOf(i)) <= 1
        /\ DeductionsApplied => Cardinality(CallsOf(i)) = 1
        /\ (pc = "deduct" /\ i < idx) => Cardinality(CallsOf(i)) = 1

C23_Witness ==
    /\ pc = "done"
    /\ regime = "custom-reordered"
    /\ \E k \in DOMAIN calls : calls[k].phase = "prepass"
    /\ \E k \in DOMAIN calls : calls[k].phase = "deduct"
    /\ Len(calls) = Len(Strategies)

\* The places of the regime's list in the order calculate was invoked.
CallOrder == [k \in DOMAIN calls |-> calls[k].i]

\* The places of the regime's list in configured order.
ConfiguredOrder == [i \in DOMAIN Strategies |-> i]

AppliesToGross(i) == Strategies[i].applies_to = "gross"

AppliesElsewhere(i) == ~AppliesToGross(i)

\* The gross-based places first when the tax base is what is left after
\* social security, the configured order otherwise.
PassOrder ==
    IF config.tax_base_strategy.kind = "AfterSocialSecurity"
    THEN SelectSeq(ConfiguredOrder, AppliesToGross)
             \o SelectSeq(ConfiguredOrder, AppliesElsewhere)
    ELSE ConfiguredOrder

\* The deduction the strategy at place i returned.
DeductionOf(i) == calls[CHOOSE k \in CallsOf(i) : TRUE].deduction

HasPositiveAmount(deduction) == DPos(deduction.amount)

\* The returned deductions of positive amount, in the given order of places.
PositiveDeductionsIn(order) ==
    SelectSeq([j \in DOMAIN order |-> DeductionOf(order[j])], HasPositiveAmount)

\* The calls made so far follow the given order of places, and once all are
\* made the result lists the positive deductions in that order.
ExecutedIn(order) ==
    /\ \A k \in DOMAIN calls : calls[k].i = order[k]
    /\ DeductionsApplied => result.deductions = PositiveDeductionsIn(order)

\* C24 as stated: for every regime the strategies execute in configured list
\* order and result.deductions is the configured order restricted to the
\* deductions of positive amount, also when a regime whose tax base is
\* computed after social security lists a taxable-based deduction before a
\* gross-based one.
C24_ConfiguredOrder == ExecutedIn(ConfiguredOrder)

\* C24 amended: within each pass the strategies execute in configured list
\* order; when the tax base is computed after social security every
\* gross-based strategy executes before every other one, and result.deductions
\* is that order restricted to the deductions of positive amount.
C24_PassOrder == ExecutedIn(PassOrder)

C24_Witness ==
    /\ pc = "done"
    /\ regime = "custom-reordered"
    /\ CallOrder = <<4, 5, 1, 2, 3, 6>>
    /\ Len(result.deductions) = 4
    /\ result.deductions[1].name = "Pension Insurance"
    /\ result.deductions[3].name = "Income Tax"

AfterSocialSecurityConfigured == config.tax_base_strategy.kind = "AfterSocialSecurity"

\* Where a calculation is: before the tax base is computed, every call so far
\* was made by the pre-pass, and the pre-pass exists only for a tax base
\* computed after social security; once the tax base is being computed the
\* pre-pass has run every gross-based strategy; the brackets are copied and
\* the net salary is set when every strategy has run.
PipelineState ==
    /\ pc = "prepass" => AfterSocialSecurityConfigured
    /\ pc \in {"prepass", "base"} =>
           /\ \A k \in DOMAIN calls : calls[k].phase = "prepass"
           /\ result.tax_base = Zero
    /\ pc = "base" =>
           \A i \in DOMAIN Strategies :
               (CallsOf(i) /= {}) <=> (AfterSocialSecurityConfigured /\ AppliesToGross(i))
    /\ ~AfterSocialSecurityConfigured =>
           \A k \in DOMAIN calls : calls[k].phase = "deduct"
    /\ pc \in {"prepass", "base", "deduct"} =>
           /\ result.income_tax_brackets = <<>>
           /\ result.calculation_explanations = {}
    /\ DeductionsApplied => Len(calls) = Len(Strategies)

\* The stages in the order a calculation goes through them.
PipelineStep ==
    pc' /= pc =>
        \/ /\ pc \in {"idle", "done"}
           /\ pc' = IF config'.tax_base_strategy.kind = "AfterSocialSecurity"
                    THEN "prepass" ELSE "base"
           /\ calls' = <<>>
        \/ /\ <<pc, pc'>> \in {<<"prepass", "base">>, <<"deduct", "brackets">>}
        \/ /\ <<pc, pc'>> \in {<<"base", "deduct">>, <<"brackets", "net">>,
                              <<"net", "explain">>, <<"explain", "done">>}
           /\ calls' = calls

\* The tax-base strategy is invoked by one step, which invokes no deduction
\* strategy, and the calculation never comes back to it.
TaxBaseOnce ==
    /\ pc = "base" => (pc' = "deduct" /\ calls' = calls)
    /\ pc \in {"deduct", "brackets", "net", "explain"}
           => result'.tax_base = result.tax_base

\* C25: a calculation goes through init, the optional pre-pass, the tax
\* base, the deductions and the finalisation in that order: the tax base is
\* computed once, after every pre-pass deduction and before any strategy of
\* the deduction pass; the pre-pass runs exactly when the tax-base strategy is
\* AfterSocialSecurityTaxBase; the brackets are copied and the net salary is
\* set only after the last deduction strategy.
C25_Pipeline == []PipelineState /\ [][PipelineStep /\ TaxBaseOnce]_vars

C25_Witness ==
    /\ pc = "done"
    /\ regime = "custom-reordered"
    /\ DLess(Zero, result.tax_base)
    /\ DLess(result.tax_base, gross_salary)
    /\ Len(result.income_tax_brackets) > 0
    /\ \E k \in DOMAIN calls : calls[k].phase = "prepass"

\* gross or tax_base according to applies_to, as get_base_amount selects it.
SelectedBase(s) ==
    IF s.applies_to \in {"taxable", "tax_base"} THEN result.tax_base ELSE gross_salary

PercentageOfBaseCalls ==
    {k \in DOMAIN calls : StrategyOfCall(k).kind = "PercentageOfBase"}

\* C26: every PercentageOfBase deduction, whichever pass executes it, has the
\* amount (selected_base * base_multiplier) * rate, where selected_base is
\* gross or tax_base according to applies_to.
C26_ShareOfBase ==
    \A k \in PercentageOfBaseCalls :
        calls[k].deduction.amount =
            DMulRate(DMulRate(SelectedBase(StrategyOfCall(k)),
                              StrategyOfCall(k).base_multiplier),
                     StrategyOfCall(k).rate)

\* Sanity: the same over the built regimes only, where no pre-pass executes
\* a PercentageOfBase deduction.
ShareOfBaseInBuiltRegimes == regime \in RegimeKeys => C26_ShareOfBase

\* The strategy writes the income-tax amount to the context.
WritesIncomeTax(s) == s.kind = "Progressive" \/ IsIncomeTaxName(s.name)

\* The strategy reads the income-tax amount from the context.
ReadsIncomeTax(s) ==
    s.applies_to = "income_tax" \/ s.condition = "income_tax_above_1000"

\* Place i reads the income tax and is configured before every strategy that
\* writes it.
ConfiguredBeforeIncomeTax(i) ==
    /\ ReadsIncomeTax(Strategies[i])
    /\ \E j \in DOMAIN Strategies : WritesIncomeTax(Strategies[j])
    /\ \A j \in DOMAIN Strategies : WritesIncomeTax(Strategies[j]) => i < j

\* Call k reads the income tax and is made before every call that writes it.
ExecutedBeforeIncomeTax(k) ==
    /\ ReadsIncomeTax(StrategyOfCall(k))
    /\ \E j \in DOMAIN Strategies : WritesIncomeTax(Strategies[j])
    /\ \A before \in 1..(k - 1) : ~WritesIncomeTax(StrategyOfCall(before))

\* Call k saw no income tax: a zero base where the base is the income tax, a
\* zero amount that the result omits, and no second call of the strategy.
SawNoIncomeTax(k) ==
    /\ StrategyOfCall(k).applies_to = "income_tax" => calls[k].base_amount = Zero
    /\ calls[k].deduction.amount = Zero
    /\ \A d \in DOMAIN result.deductions :
           result.deductions[d].name /= calls[k].deduction.name
    /\ Cardinality(CallsOf(calls[k].i)) = 1

LegacyOf(key) ==
    IF key = "czechia-salaried" THEN "SalariedEmployeeCzechia" ELSE "FreelancerCzechia"

\* The amount of the deduction of that name, zero when the result has none.
AmountNamed(r, name) ==
    IF \E d \in DOMAIN r.deductions : r.deductions[d].name = name
    THEN r.deductions[CHOOSE d \in DOMAIN r.deductions :
                          r.deductions[d].name = name].amount
    ELSE Zero

CzechDeductionNames == {"Income Tax", "Social Security", "Health Insurance"}

SameOutcome(a, b) ==
    /\ a.tax_base = b.tax_base
    /\ a.net_salary = b.net_salary
    /\ \A name \in CzechDeductionNames : AmountNamed(a, name) = AmountNamed(b, name)

EngineDoneFor(key) == pc = "done" /\ regime = key

\* C28: for every gross salary and the fixed CZK rate, the engine on the
\* Czechia salaried and freelancer configurations returns the tax base, the
\* net salary and the deduction amounts per name that SalariedEmployeeCzechia
\* and FreelancerCzechia return.
C28_EngineMatchesLegacy ==
    \A key \in {"czechia-salaried", "czechia-freelancer"} :
        EngineDoneFor(key) =>
            SameOutcome(result, LegacyResult(LegacyOf(key), gross_salary))

\* The salaried half of C28 on its own.
SalariedEngineMatchesLegacy ==
    EngineDoneFor("czechia-salaried") =>
        SameOutcome(result, LegacyResult("SalariedEmployeeCzechia", gross_salary))

\* What the progressive strategy of call k stages when nothing is staged.
StagedAlone(k) ==
    ProgressiveCalculate(StrategyOfCall(k), calls[k].base_amount, EmptyContext).context

LastProgressiveCall ==
    CHOOSE k \in ProgressiveCalls : \A j \in ProgressiveCalls : j <= k

\* Each progressive call leaves its own brackets and its own amount staged.
StagedOverwritten ==
    \A k \in ProgressiveCalls :
        /\ RecordedBrackets(k) = StagedAlone(k)["income_tax_brackets"]
        /\ calls[k].context_after["income_tax_amount"]
               = StagedAlone(k)["income_tax_amount"]

\* C29: the returned income_tax_brackets is the bracket list the last
\* progressive deduction executed wrote to the context; each progressive
\* deduction overwrites the staged brackets and income-tax amount; a regime
\* without a progressive deduction returns an empty bracket list.
C29_BracketsOfLastProgressive ==
    /\ StagedOverwritten
    /\ pc \in {"net", "explain", "done"} =>
           result.income_tax_brackets =
               IF ProgressiveCalls = {} THEN <<>>
               ELSE RecordedBrackets(LastProgressiveCall)

C29_Witness ==
    /\ pc = "done"
    /\ regime = "custom-reordered"
    /\ Cardinality(ProgressiveCalls) = 2
    /\ \A k \in ProgressiveCalls : RecordedBrackets(k) /= <<>>
    /\ \E k \in ProgressiveCalls : RecordedBrackets(k) /= result.income_tax_brackets
    /\ Len(result.income_tax_brackets) = 5

\* A regime without a progressive deduction returns no brackets.
NoProgressiveNoBrackets ==
    /\ pc = "done"
    /\ DPos(result.total_deductions)
    /\ ProgressiveCalls = {}
    /\ result.income_tax_brackets = <<>>

\* A calculation for a regime the registry holds has returned.
RegisteredDone == pc = "done" /\ Registered(RegistryAfterImport, regime)

\* C30: for every registered regime and every gross salary >= 0 the returned
\* result has 0 <= net_salary <= gross_salary and tax_base <= gross_salary.
C30_WithinGross ==
    RegisteredDone =>
        /\ DLeq(Zero, result.net_salary)
        /\ DLeq(result.net_salary, gross_salary)
        /\ DLeq(result.tax_base, gross_salary)

C30_Witness ==
    /\ RegisteredDone
    /\ regime = "germany-salaried"
    /\ DLess(Zero, result.net_salary)
    /\ DLess(result.net_salary, result.tax_base)
    /\ DLess(result.tax_base, gross_salary)

====
